---- MODULE Spec2Model ----
(***************************************************************************)
(* Option-aware backtesters of realtime-trading-signals.                   *)
(*                                                                         *)
(*   CorrectedPortfolioBacktester  ivan/enhanced/portfolio_corrected_options.py *)
(*   PortfolioManager / PortfolioBacktester                                *)
(*                                 ivan/enhanced/portfolio_enhanced_laa_eva.py  *)
(*   OptionTrade.calculate_pnl     ivan/enhanced/corrected_option_trading.py    *)
(*                                                                         *)
(* Number representation.  The program computes in binary floating point.  *)
(* The model computes on a fixed-point grid with round-to-nearest:         *)
(*   - amounts of ETH are integers in units of 1/10000 ETH;                *)
(*   - percentages (profit cap, premium cost, price move) are integers in  *)
(*     basis points, 1 bp = 0.01 percent;                                  *)
(*   - the percentages of a PortfolioConfig are whole percents;            *)
(*   - prices are integers (cents where a scenario needs them);            *)
(*   - time is counted in ticks, TicksPerDay of them in a calendar day.    *)
(* A product or quotient of the program is the exact rational result       *)
(* rounded to the nearest grid point (RDiv), as a float operation is the   *)
(* exact result rounded to the nearest float.  Comparisons of ratios are   *)
(* made exactly, by cross-multiplication.                                  *)
(***************************************************************************)
EXTENDS Integers, Sequences, FiniteSets, TLC

VARIABLES
    engine,               \* the program that runs: "corrected", "manager", "pnl", "dsl", "replay",
                          \* "select", "config", "frame", "indicators", "optimize", "logs", "broadcast"
    config,               \* self.config, the PortfolioConfig of the run
    capital_eth,          \* self.capital_eth (both backtesters)
    peak_capital,         \* self.peak_capital (both backtesters)
    in_drawdown,          \* CorrectedPortfolioBacktester.in_drawdown
    positions,            \* CorrectedPortfolioBacktester.positions
    completed_trades,     \* CorrectedPortfolioBacktester.completed_trades
    daily_premium_spent,  \* CorrectedPortfolioBacktester.daily_premium_spent
    is_trading_enabled,   \* PortfolioManager.is_trading_enabled
    active_positions,     \* PortfolioManager.active_positions
    trade_logs,           \* PortfolioManager.trade_logs
    pc,                   \* position of run_backtest
    bar_idx,              \* number of rows of ohlcv_df consumed so far
    current_time,         \* timestamp of the current row, in ticks
    current_price,        \* row['close'] of the current row
    signals_seen,         \* signals of the list matched at the current row
    trade,                \* the trade whose P&L is computed (engine "pnl")
    pnl_result,           \* the P&L the program computed for it
    executor,             \* the DSL executor class that runs (engine "dsl", "replay")
    dsl,                  \* self.dsl, the strategy definition
    df,                   \* df_with_indicators, the rows generate_signals walks
    idx,                  \* rows generate_signals has handled
    signals,              \* the list generate_signals builds
    run_no,               \* which of the two runs is under way (engine "replay")
    first_output,         \* the trade logs the first run returned (engine "replay")
    max_iterations,       \* optimize_strategy's bound on the combinations it evaluates
    param_combinations,   \* the combinations _generate_param_combinations returned
    best_fitness,         \* optimize_strategy's best_fitness
    best_result,          \* optimize_strategy's best_result
    optimization_history, \* self.optimization_history
    memory_logs,          \* PersistentLogManager.memory_logs
    batch_logs,           \* PersistentLogManager.batch_logs
    database,             \* the committed rows of the table logs, in insertion order
    elapsed,              \* 30 seconds or more have passed since last_batch_time
    log_pc,               \* position of each task that runs add_log or _flush_batch
    batch_data,           \* batch_data of each task inside _flush_batch
    active_connections,   \* SignalManager.active_connections
    open_sockets,         \* the clients whose WebSocket is still open
    handled,              \* the clients whose handler has called disconnect_websocket
    broadcasts,           \* each _broadcast call: its position, list iterator and locals
    delivered,            \* << call, client >> for every send_text that succeeded
    last_event            \* what the last step did (observation only)

loop_vars == << pc, bar_idx, current_time, current_price, signals_seen >>

corrected_vars == << in_drawdown, positions, completed_trades, daily_premium_spent >>

manager_vars == << is_trading_enabled, active_positions, trade_logs >>

pnl_vars == << trade, pnl_result >>

dsl_vars == << executor, dsl, df, idx, signals >>

replay_vars == << run_no, first_output >>

optimizer_vars == << max_iterations, param_combinations, best_fitness, best_result,
                     optimization_history >>

log_vars == << memory_logs, batch_logs, database, elapsed, log_pc, batch_data >>

broadcast_vars == << active_connections, open_sockets, handled, broadcasts, delivered >>

service_vars == << optimizer_vars, log_vars, broadcast_vars >>

vars == << engine, config, capital_eth, peak_capital, corrected_vars, manager_vars,
           loop_vars, pnl_vars, dsl_vars, replay_vars, service_vars, last_event >>

-----------------------------------------------------------------------------
(* Bounds of the exploration *)

\* rows of ohlcv_df, signals of the list that carry one timestamp, positions
\* opened in one run
MaxBars == 2
MaxSignalsPerBar == 2
MaxTrades == 3

\* the same for the long runs, in which the drawdown mode is entered and left
DeepBars == 3
DeepTrades == 3

\* rows of ohlcv_df in a run of PortfolioBacktester
ManagerBars == 3

\* ticks in one calendar day (a tick is 12 hours)
TicksPerDay == 1 + 1

\* time between two consecutive rows, in ticks: 12 hours, or 3 days
Steps == {1, 6}

\* the same for the rows given to PortfolioBacktester: 12 hours, 3 days, or 4 days
ManagerSteps == {1, 6, 8}

\* close prices a row can carry
Prices == {1000, 1010, 1100}

\* close price of the first row of the series
FirstPrices == {1010}

\* Signal.signal, Signal.strength and Signal.instrument of the inputs
SignalDirections == {0 - 1, 0, 1}
SignalStrengths == {4, 10}
SignalInstruments == {"3D_5PCT", "1D_2PCT"}

NoTime == 0 - 1

\* trade and pnl_result while no P&L computation runs
NoTrade == [nominal_eth |-> 0]
NoResult == [by |-> "none"]

\* no strategy definition is loaded
NoStrategy == [signal_rules |-> << >>]

\* no result of a parameter sweep
None == [iteration |-> 0]

\* no optimizer exists in the other programs
\* no PersistentLogManager exists in the backtesting programs
IdleLogs ==
    /\ memory_logs = << >>
    /\ batch_logs = << >>
    /\ database = << >>
    /\ elapsed = FALSE
    /\ log_pc = << >>
    /\ batch_data = << >>

\* no SignalManager exists in the backtesting programs
IdleBroadcasts ==
    /\ active_connections = << >>
    /\ open_sockets = {}
    /\ handled = {}
    /\ broadcasts = << >>
    /\ delivered = {}

IdleServices ==
    /\ max_iterations = 0
    /\ param_combinations = << >>
    /\ best_fitness = 0
    /\ best_result = None
    /\ optimization_history = << >>
    /\ IdleLogs
    /\ IdleBroadcasts

\* no DSL executor and no second run exist in the backtester and P&L programs
IdleGenerator ==
    /\ executor = "none"
    /\ dsl = NoStrategy
    /\ df = << >>
    /\ idx = 0
    /\ signals = << >>
    /\ run_no = 1
    /\ first_output = << >>
    /\ IdleServices

-----------------------------------------------------------------------------
(* Arithmetic *)

Min(a, b) == IF a <= b THEN a ELSE b
Max(a, b) == IF a >= b THEN a ELSE b
Abs(a) == IF a >= 0 THEN a ELSE 0 - a

\* a / b rounded to the nearest integer, halves away from zero (b > 0), so that
\* negation commutes with the division as it does for floats
RDiv(a, b) ==
    IF a >= 0 THEN (2 * a + b) \div (2 * b) ELSE 0 - ((2 * (0 - a) + b) \div (2 * b))

\* x * (p / 100), p in whole percents
PctOf(x, p) == RDiv(x * p, 100)

\* x * (bp / 100) / 100 ... a share given in basis points
BpOf(x, bp) == RDiv(x * bp, 10000)

RECURSIVE SumPremiums(_)
\* sum(p.premium_paid_eth for p in s)
SumPremiums(s) ==
    IF s = << >> THEN 0 ELSE Head(s).premium_paid_eth + SumPremiums(Tail(s))

RECURSIVE FirstExpired(_, _)
\* index of the first position of s with now >= expiry_time, 0 when there is none
FirstExpired(s, now) ==
    IF s = << >> THEN 0
    ELSE IF now >= Head(s).expiry_time THEN 1
    ELSE LET r == FirstExpired(Tail(s), now) IN IF r = 0 THEN 0 ELSE r + 1

RECURSIVE FirstWithId(_, _)
\* index of the first trade log of s with trade_id = id, 0 when there is none
FirstWithId(s, id) ==
    IF s = << >> THEN 0
    ELSE IF Head(s).trade_id = id THEN 1
    ELSE LET r == FirstWithId(Tail(s), id) IN IF r = 0 THEN 0 ELSE r + 1

RemoveAt(s, i) == [j \in 1..(Len(s) - 1) |-> IF j < i THEN s[j] ELSE s[j + 1]]

-----------------------------------------------------------------------------
(* portfolio_corrected_options.py: data *)

\* OPTION_INSTRUMENTS; profit_cap_pct and premium_cost_pct in basis points
OPTION_INSTRUMENTS ==
    [n \in {"3D_5PCT", "3D_10PCT", "7D_5PCT", "7D_10PCT"} |->
        CASE n = "3D_5PCT"  -> [duration_days |-> 3, profit_cap_pct |-> 500,  premium_cost_pct |-> 220]
          [] n = "3D_10PCT" -> [duration_days |-> 3, profit_cap_pct |-> 1000, premium_cost_pct |-> 260]
          [] n = "7D_5PCT"  -> [duration_days |-> 7, profit_cap_pct |-> 500,  premium_cost_pct |-> 280]
          [] n = "7D_10PCT" -> [duration_days |-> 7, profit_cap_pct |-> 1000, premium_cost_pct |-> 280]]

\* a PortfolioConfig with tight limits, so that few trades reach them
ConfigTight ==
    [initial_capital_eth |-> 100000, premium_per_trade_pct |-> 10,
     max_daily_premium_pct |-> 12, max_total_premium_pct |-> 20,
     max_concurrent_positions |-> 2, max_drawdown_pct |-> 12]

Configs == {ConfigTight}

Signals ==
    [signal : SignalDirections, strength : SignalStrengths, instrument : SignalInstruments]

\* PortfolioConfig.get_premium_budget_eth
get_premium_budget_eth(cfg, capital, existing_premiums) ==
    LET max_total_premium == PctOf(capital, cfg.max_total_premium_pct)
        remaining_budget == max_total_premium - existing_premiums
        per_trade_limit == PctOf(capital, cfg.premium_per_trade_pct)
    IN  Min(remaining_budget, per_trade_limit)

\* the move with CALL and PUT exchanged
price_move_swapped(is_call, entry_price, exit_price) ==
    IF is_call
        THEN RDiv((entry_price - exit_price) * 10000, entry_price)
        ELSE RDiv((exit_price - entry_price) * 10000, entry_price)

\* OptionPosition.calculate_pnl: the favourable-direction move, in basis points
price_move_pct(is_call, entry_price, exit_price) ==
    IF is_call
        THEN RDiv((exit_price - entry_price) * 10000, entry_price)
        ELSE RDiv((entry_price - exit_price) * 10000, entry_price)

\* a cap that forgets the ceiling
capped_without_ceiling(move, profit_cap_pct) == Max(move, 0)

\* OptionPosition.calculate_pnl: min(max(price_move_pct, 0), self.profit_cap_pct)
capped_move(move, profit_cap_pct) == Min(Max(move, 0), profit_cap_pct)

\* a P&L whose net amount leaves out the premium
calculate_pnl_gross(position, exit_price) ==
    LET move == price_move_pct(position.is_call, position.entry_price, exit_price)
        capped_move_pct == capped_move(move, position.profit_cap_pct)
        payout_eth == BpOf(position.nominal_eth, capped_move_pct)
    IN  [price_move_pct |-> move,
         capped_move_pct |-> capped_move_pct,
         payout_eth |-> payout_eth,
         net_pnl_eth |-> payout_eth,
         win |-> payout_eth > 0]

\* OptionPosition.calculate_pnl
calculate_pnl(position, exit_price) ==
    LET move == price_move_pct(position.is_call, position.entry_price, exit_price)
        capped_move_pct == capped_move(move, position.profit_cap_pct)
        payout_eth == BpOf(position.nominal_eth, capped_move_pct)
        net_pnl_eth == payout_eth - position.premium_paid_eth
    IN  [price_move_pct |-> move,
         capped_move_pct |-> capped_move_pct,
         payout_eth |-> payout_eth,
         net_pnl_eth |-> net_pnl_eth,
         win |-> net_pnl_eth > 0]

\* sum(p.premium_paid_eth for p in self.positions)
current_premium_exposure == SumPremiums(positions)

-----------------------------------------------------------------------------
(* CorrectedPortfolioBacktester *)

\* CorrectedPortfolioBacktester.__init__
InitCorrected ==
    /\ engine = "corrected"
    /\ config \in Configs
    /\ capital_eth = config.initial_capital_eth
    /\ peak_capital = config.initial_capital_eth
    /\ in_drawdown = FALSE
    /\ positions = << >>
    /\ completed_trades = << >>
    /\ daily_premium_spent = << >>
    /\ is_trading_enabled = TRUE
    /\ active_positions = << >>
    /\ trade_logs = << >>
    /\ pc = "next_bar"
    /\ bar_idx = 0
    /\ current_time = 0
    /\ current_price = 0
    /\ signals_seen = 0
    /\ trade = NoTrade
    /\ pnl_result = NoResult
    /\ last_event = "init"
    /\ IdleGenerator

\* _process_signal, up to the decision: "open" or the reason of the rejection
trade_date == current_time \div TicksPerDay

daily_spent == IF trade_date \in DOMAIN daily_premium_spent
                  THEN daily_premium_spent[trade_date] ELSE 0

premium_budget == get_premium_budget_eth(config, capital_eth, current_premium_exposure)

\* the budget taken whole, whatever the strength
adjusted_budget_unscaled(signal) == premium_budget

\* min(abs(signal.strength) / 10.0, 1.0) if signal.strength != 0 else 0.5, times the budget
adjusted_budget(signal) ==
    IF signal.strength # 0
        THEN RDiv(premium_budget * Min(Abs(signal.strength), 10), 10)
        ELSE RDiv(premium_budget, 2)

\* the position limit tested with > in place of >=
max_positions_exceeded == Len(positions) > config.max_concurrent_positions

\* _process_signal: len(self.positions) >= self.config.max_concurrent_positions
max_positions_reached == Len(positions) >= config.max_concurrent_positions

\* daily_spent >= daily_limit, daily_limit = capital_eth * (max_daily_premium_pct / 100)
daily_limit_reached == daily_spent * 100 >= capital_eth * config.max_daily_premium_pct

\* adjusted_budget < min_premium, min_premium = capital_eth * 0.001
below_min_premium(signal) == adjusted_budget(signal) * 1000 < capital_eth

signal_decision(signal) ==
    IF max_positions_reached THEN "max_positions"
    ELSE IF premium_budget <= 0 THEN "no_budget"
    ELSE IF signal.instrument \notin DOMAIN OPTION_INSTRUMENTS THEN "unknown_instrument"
    ELSE IF daily_limit_reached THEN "daily_limit"
    ELSE IF below_min_premium(signal) THEN "below_minimum"
    ELSE "open"

\* _process_signal: nominal exposure and premium of the new position
new_position_size(signal) ==
    LET instrument == OPTION_INSTRUMENTS[signal.instrument]
        nominal0 == RDiv(adjusted_budget(signal) * 10000, instrument.premium_cost_pct)
        premium0 == BpOf(nominal0, instrument.premium_cost_pct)
    IN  IF premium0 > premium_budget
            THEN [nominal_eth |-> RDiv(premium_budget * 10000, instrument.premium_cost_pct),
                  premium_eth |-> premium_budget]
            ELSE [nominal_eth |-> nominal0, premium_eth |-> premium0]

\* the loop of run_backtest (of either backtester) takes the next row of ohlcv_df
BeginBar(dt, price, max_bars) ==
    /\ engine \in {"corrected", "manager"}
    /\ pc \in {"next_bar", "signals"}
    /\ bar_idx < max_bars
    /\ bar_idx' = bar_idx + 1
    /\ current_time' = IF bar_idx = 0 THEN 0 ELSE current_time + dt
    /\ current_price' \in (IF bar_idx = 0 THEN FirstPrices ELSE {price})
    /\ signals_seen' = 0
    /\ pc' = "expirations"
    /\ last_event' = "bar"
    /\ UNCHANGED << engine, pnl_vars, dsl_vars, replay_vars, service_vars, config, capital_eth, peak_capital, corrected_vars,
                    manager_vars >>

\* a close that credits the net P&L, so that the premium is deducted a second time
credited_net(pnl) == pnl.net_pnl_eth

\* _close_position: self.capital_eth += pnl_result['payout_eth']
credited_amount(pnl) == pnl.payout_eth

\* _close_position(position, exit_price, exit_time, reason) for self.positions[i]
ClosePosition(i, exit_price, exit_time, reason) ==
    LET position == positions[i]
        pnl == calculate_pnl(position, exit_price)
        capital_after == capital_eth + credited_amount(pnl)
        k == FirstWithId(completed_trades, position.position_id)
    IN  /\ capital_eth' = capital_after
        /\ peak_capital' = IF capital_after > peak_capital THEN capital_after ELSE peak_capital
        /\ completed_trades' =
              IF k = 0 THEN completed_trades
              ELSE [completed_trades EXCEPT ![k] =
                      [@ EXCEPT !.exit_time = exit_time,
                                !.exit_price = exit_price,
                                !.price_move_pct = pnl.price_move_pct,
                                !.capped_move_pct = pnl.capped_move_pct,
                                !.payout_eth = pnl.payout_eth,
                                !.net_pnl_eth = pnl.net_pnl_eth,
                                !.capital_after = capital_after,
                                !.win = pnl.win,
                                !.exit_reason = reason]]
        /\ positions' = RemoveAt(positions, i)

\* _process_expirations: one expired position is closed at the row's close
ExpirePosition ==
    /\ engine = "corrected"
    /\ pc = "expirations"
    /\ FirstExpired(positions, current_time) # 0
    /\ ClosePosition(FirstExpired(positions, current_time), current_price, current_time, "expiry")
    /\ last_event' = "closed_expiry"
    /\ UNCHANGED << engine, pnl_vars, dsl_vars, replay_vars, service_vars, config, in_drawdown, daily_premium_spent, manager_vars,
                    loop_vars >>

\* (peak - capital) / peak * 100 > pct, exactly
drawdown_above(pct) == (peak_capital - capital_eth) * 100 > pct * peak_capital

\* (peak - capital) / peak * 100 < max_drawdown_pct * 0.7, exactly
drawdown_below_recovery ==
    (peak_capital - capital_eth) * 1000 < config.max_drawdown_pct * 7 * peak_capital

\* _check_drawdown: the value it returns
check_drawdown_result == drawdown_above(config.max_drawdown_pct)

\* _check_drawdown: the value of self.in_drawdown it leaves
check_drawdown_flag ==
    IF drawdown_above(config.max_drawdown_pct) THEN TRUE
    ELSE IF in_drawdown /\ drawdown_below_recovery THEN FALSE
    ELSE in_drawdown

\* a drawdown check that does not wait for the expirations of the row
CheckDrawdownBeforeExpirations ==
    /\ engine = "corrected"
    /\ pc = "expirations"
    /\ peak_capital # 0
    /\ in_drawdown' = check_drawdown_flag
    /\ pc' = IF check_drawdown_result THEN "next_bar" ELSE "signals"
    /\ last_event' = IF check_drawdown_result THEN "drawdown_skip" ELSE "drawdown_ok"
    /\ UNCHANGED << engine, pnl_vars, dsl_vars, replay_vars, service_vars, config, capital_eth,
                    peak_capital, positions, completed_trades, daily_premium_spent,
                    manager_vars, bar_idx, current_time, current_price, signals_seen >>

\* run_backtest: after the expirations of a row, _check_drawdown; `continue` when it
\* returns True, the signals of the row otherwise
CheckDrawdown ==
    /\ engine = "corrected"
    /\ pc = "expirations"
    /\ FirstExpired(positions, current_time) = 0
    /\ peak_capital # 0
    /\ in_drawdown' = check_drawdown_flag
    /\ pc' = IF check_drawdown_result THEN "next_bar" ELSE "signals"
    /\ last_event' = IF check_drawdown_result THEN "drawdown_skip" ELSE "drawdown_ok"
    /\ UNCHANGED << engine, pnl_vars, dsl_vars, replay_vars, service_vars, config, capital_eth, peak_capital, positions,
                    completed_trades, daily_premium_spent, manager_vars, bar_idx,
                    current_time, current_price, signals_seen >>

\* _check_drawdown with peak_capital 0: the division (peak - capital) / peak raises
\* ZeroDivisionError, which run_backtest does not catch
CheckDrawdownRaises ==
    /\ engine = "corrected"
    /\ pc = "expirations"
    /\ FirstExpired(positions, current_time) = 0
    /\ peak_capital = 0
    /\ pc' = "raised"
    /\ last_event' = "ZeroDivisionError"
    /\ UNCHANGED << engine, pnl_vars, dsl_vars, replay_vars, service_vars, config, capital_eth,
                    peak_capital, corrected_vars, manager_vars, bar_idx, current_time,
                    current_price, signals_seen >>

\* run_backtest: a signal of the list with this row's timestamp and signal == 0
SkipNeutralSignal(signal) ==
    /\ engine = "corrected"
    /\ pc = "signals"
    /\ signals_seen < MaxSignalsPerBar
    /\ signal.signal = 0
    /\ signals_seen' = signals_seen + 1
    /\ last_event' = "neutral"
    /\ UNCHANGED << engine, pnl_vars, dsl_vars, replay_vars, service_vars, config, capital_eth, peak_capital, corrected_vars,
                    manager_vars, pc, bar_idx, current_time, current_price >>

\* a rejection that ends the run
RejectSignalAndStop(signal) ==
    /\ engine = "corrected"
    /\ pc = "signals"
    /\ signals_seen < MaxSignalsPerBar
    /\ signal.signal # 0
    /\ signal_decision(signal) # "open"
    /\ signals_seen' = signals_seen + 1
    /\ pc' = "done"
    /\ last_event' = signal_decision(signal)
    /\ UNCHANGED << engine, pnl_vars, dsl_vars, replay_vars, service_vars, config, capital_eth, peak_capital, corrected_vars,
                    manager_vars, bar_idx, current_time, current_price >>

\* _process_signal returning False
RejectSignal(signal) ==
    /\ engine = "corrected"
    /\ pc = "signals"
    /\ signals_seen < MaxSignalsPerBar
    /\ signal.signal # 0
    /\ signal_decision(signal) # "open"
    /\ signals_seen' = signals_seen + 1
    /\ last_event' = signal_decision(signal)
    /\ UNCHANGED << engine, pnl_vars, dsl_vars, replay_vars, service_vars, config, capital_eth, peak_capital, corrected_vars,
                    manager_vars, pc, bar_idx, current_time, current_price >>

\* _process_signal returning True
OpenPosition(signal, max_trades) ==
    /\ engine = "corrected"
    /\ pc = "signals"
    /\ signals_seen < MaxSignalsPerBar
    /\ signal.signal # 0
    /\ signal_decision(signal) = "open"
    /\ Len(completed_trades) < max_trades
    /\ LET instrument == OPTION_INSTRUMENTS[signal.instrument]
           size == new_position_size(signal)
           id == Len(completed_trades) + 1
           position ==
              [position_id |-> id,
               entry_time |-> current_time,
               expiry_time |-> current_time + instrument.duration_days * TicksPerDay,
               instrument_name |-> signal.instrument,
               is_call |-> signal.signal > 0,
               entry_price |-> current_price,
               nominal_eth |-> size.nominal_eth,
               premium_paid_eth |-> size.premium_eth,
               profit_cap_pct |-> instrument.profit_cap_pct,
               signal_strength |-> signal.strength]
           trade_log ==
              [trade_id |-> id,
               entry_time |-> current_time,
               instrument_type |-> signal.instrument,
               is_call |-> signal.signal > 0,
               signal_strength |-> signal.strength,
               entry_price |-> current_price,
               nominal_eth |-> size.nominal_eth,
               premium_paid_eth |-> size.premium_eth,
               exit_time |-> NoTime,
               exit_price |-> 0,
               price_move_pct |-> 0,
               capped_move_pct |-> 0,
               payout_eth |-> 0,
               net_pnl_eth |-> 0,
               capital_before |-> capital_eth,
               capital_after |-> capital_eth - size.premium_eth,
               concurrent_positions |-> Len(positions) + 1,
               total_premium_deployed |-> current_premium_exposure + size.premium_eth,
               win |-> FALSE,
               exit_reason |-> ""]
       IN  /\ capital_eth' = capital_eth - size.premium_eth
           /\ daily_premium_spent' =
                 [d \in (DOMAIN daily_premium_spent) \cup {trade_date} |->
                     IF d = trade_date THEN daily_spent + size.premium_eth
                     ELSE daily_premium_spent[d]]
           /\ positions' = Append(positions, position)
           /\ completed_trades' = Append(completed_trades, trade_log)
    /\ signals_seen' = signals_seen + 1
    /\ last_event' = "opened"
    /\ UNCHANGED << engine, pnl_vars, dsl_vars, replay_vars, service_vars, config, peak_capital, in_drawdown, manager_vars, pc,
                    bar_idx, current_time, current_price >>

\* run_backtest: the rows are exhausted
EndOfData ==
    /\ engine = "corrected"
    /\ pc \in {"next_bar", "signals"}
    /\ pc' = "closing"
    /\ last_event' = "end_of_rows"
    /\ UNCHANGED << engine, pnl_vars, dsl_vars, replay_vars, service_vars, config, capital_eth, peak_capital, corrected_vars,
                    manager_vars, bar_idx, current_time, current_price, signals_seen >>

\* _close_all_positions(last_price, last timestamp), when len(ohlcv_df) > 0
CloseRemaining ==
    /\ engine = "corrected"
    /\ pc = "closing"
    /\ bar_idx > 0
    /\ positions # << >>
    /\ ClosePosition(1, current_price, current_time, "end_of_data")
    /\ last_event' = "closed_end_of_data"
    /\ UNCHANGED << engine, pnl_vars, dsl_vars, replay_vars, service_vars, config, in_drawdown, daily_premium_spent, manager_vars,
                    loop_vars >>

\* a return that leaves out _close_all_positions
ReturnWithoutClosing ==
    /\ engine = "corrected"
    /\ pc = "closing"
    /\ pc' = "done"
    /\ last_event' = "returned"
    /\ UNCHANGED << engine, pnl_vars, dsl_vars, replay_vars, service_vars, config, capital_eth, peak_capital, corrected_vars,
                    manager_vars, bar_idx, current_time, current_price, signals_seen >>

\* run_backtest returns self._calculate_results(ohlcv_df)
Return ==
    /\ engine = "corrected"
    /\ pc = "closing"
    /\ bar_idx = 0 \/ positions = << >>
    /\ pc' = "done"
    /\ last_event' = "returned"
    /\ UNCHANGED << engine, pnl_vars, dsl_vars, replay_vars, service_vars, config, capital_eth, peak_capital, corrected_vars,
                    manager_vars, bar_idx, current_time, current_price, signals_seen >>

RECURSIVE SumOver(_, _)
\* sum(f(t) for t in s), f given as the sequence of its values
SumOver(values, n) == IF n = 0 THEN 0 ELSE values[n] + SumOver(values, n - 1)

\* _calculate_results: the counts and sums of the statistics it returns; completed are the
\* trade logs with an exit time
calculate_results ==
    LET completed == SelectSeq(completed_trades, LAMBDA t : t.exit_time # NoTime)
        n == Len(completed)
        winning_trades == SelectSeq(completed, LAMBDA t : t.win)
        losing_trades == SelectSeq(completed, LAMBDA t : ~t.win)
    IN  [total_trades |-> n,
         winning_trades |-> Len(winning_trades),
         losing_trades |-> Len(losing_trades),
         total_net_pnl_eth |-> SumOver([k \in 1..n |-> completed[k].net_pnl_eth], n),
         final_capital_eth |-> capital_eth,
         total_premium_paid_eth |-> SumOver([k \in 1..n |-> completed[k].premium_paid_eth], n),
         total_payout_received_eth |-> SumOver([k \in 1..n |-> completed[k].payout_eth], n)]

\* run_backtest over at most max_bars rows, the signals of the list taken from signal_list
CorrectedStepOn(max_bars, max_trades, signal_list) ==
    \/ \E dt \in Steps, price \in Prices : engine = "corrected" /\ BeginBar(dt, price, max_bars)
    \/ ExpirePosition
    \/ CheckDrawdown
    \/ \E signal \in signal_list : SkipNeutralSignal(signal)
    \/ \E signal \in signal_list : RejectSignal(signal)
    \/ \E signal \in signal_list : OpenPosition(signal, max_trades)
    \/ EndOfData
    \/ CloseRemaining
    \/ Return

CorrectedStep(max_bars, max_trades) == CorrectedStepOn(max_bars, max_trades, Signals)

NextCorrected == CorrectedStep(MaxBars, MaxTrades)

NextCorrectedDeep == CorrectedStep(DeepBars, DeepTrades)

SpecCorrected == InitCorrected /\ [][NextCorrected]_vars

\* the runs of CorrectedPortfolioBacktester over DeepBars rows
SpecCorrectedDeep == InitCorrected /\ [][NextCorrectedDeep]_vars

\* a PortfolioConfig whose limits are reached one at a time: the total budget equals the
\* per-trade limit, and the daily limit is below both
ConfigRejecting ==
    [initial_capital_eth |-> 100000, premium_per_trade_pct |-> 11,
     max_daily_premium_pct |-> 4, max_total_premium_pct |-> 11,
     max_concurrent_positions |-> 2, max_drawdown_pct |-> 12]

\* signals of three strengths on a 3-day and a 7-day instrument and on a name that is no
\* instrument
RejectionSignals ==
    [signal : {0, 1}, strength : {4, 9, 10}, instrument : {"3D_5PCT", "7D_5PCT", "1D_2PCT"}]

\* CorrectedPortfolioBacktester.__init__ with that config
InitRejections ==
    /\ engine = "corrected"
    /\ config = ConfigRejecting
    /\ capital_eth = config.initial_capital_eth
    /\ peak_capital = config.initial_capital_eth
    /\ in_drawdown = FALSE
    /\ positions = << >>
    /\ completed_trades = << >>
    /\ daily_premium_spent = << >>
    /\ is_trading_enabled = TRUE
    /\ active_positions = << >>
    /\ trade_logs = << >>
    /\ pc = "next_bar"
    /\ bar_idx = 0
    /\ current_time = 0
    /\ current_price = 0
    /\ signals_seen = 0
    /\ trade = NoTrade
    /\ pnl_result = NoResult
    /\ last_event = "init"
    /\ IdleGenerator

NextRejections == CorrectedStepOn(MaxBars, MaxTrades, RejectionSignals)

\* signals without strength, of a middling strength and of a strength above 10
SizingSignals == [signal : {0, 1}, strength : {0, 4, 15}, instrument : {"3D_5PCT"}]

NextSizing == CorrectedStepOn(MaxBars, MaxTrades, SizingSignals)

\* the runs of CorrectedPortfolioBacktester over signals of every kind of strength
SpecSizing == InitCorrected /\ [][NextSizing]_vars

\* the runs of CorrectedPortfolioBacktester in which every kind of rejection occurs
SpecRejections == InitRejections /\ [][NextRejections]_vars

-----------------------------------------------------------------------------
(* portfolio_enhanced_laa_eva.py: PortfolioManager driven by PortfolioBacktester *)

\* OptionInstruments.INSTRUMENTS; the percentages in basis points
INSTRUMENTS ==
    [n \in {"3D_5PCT", "3D_10PCT", "7D_5PCT", "7D_10PCT"} |->
        CASE n = "3D_5PCT"  -> [duration_days |-> 3, profit_cap_pct |-> 500,  premium_cost_pct |-> 220]
          [] n = "3D_10PCT" -> [duration_days |-> 3, profit_cap_pct |-> 1000, premium_cost_pct |-> 260]
          [] n = "7D_5PCT"  -> [duration_days |-> 7, profit_cap_pct |-> 500,  premium_cost_pct |-> 280]
          [] n = "7D_10PCT" -> [duration_days |-> 7, profit_cap_pct |-> 1000, premium_cost_pct |-> 280]]

\* a PortfolioConfig of the manager with limits that few trades reach
ManagerConfigTight ==
    [initial_capital_eth |-> 100000, position_size_pct |-> 50,
     max_concurrent_positions |-> 2, max_drawdown_pct |-> 2,
     recovery_threshold_pct |-> 99, reserve_capital_pct |-> 20]

ManagerConfigs == {ManagerConfigTight}

\* EnhancedOptionsSignal.signal (the strength of the rule's action) of the inputs
ManagerStrengths == {0 - 7, 0, 3}
ManagerInstruments == {"3D_5PCT", "7D_10PCT"}

\* the EnhancedOptionsSignal generate_signals builds for a strength and an instrument
EnhancedOptionsSignal(strength, instrument_type) ==
    [signal |-> strength,
     instrument_type |-> instrument_type,
     profit_cap_pct |-> INSTRUMENTS[instrument_type].profit_cap_pct,
     premium_cost_pct |-> INSTRUMENTS[instrument_type].premium_cost_pct,
     duration_days |-> INSTRUMENTS[instrument_type].duration_days]

ManagerSignals ==
    {EnhancedOptionsSignal(st, it) : st \in ManagerStrengths, it \in ManagerInstruments}

\* PortfolioConfig.position_multipliers.get(abs(signal_strength), 1.0), in tenths
position_multiplier(signal_strength) ==
    IF Abs(signal_strength) = 7 THEN 15 ELSE 10

\* PortfolioConfig.get_position_size
get_position_size(cfg, portfolio_value, signal_strength) ==
    LET base_size == PctOf(portfolio_value, cfg.position_size_pct)
        available_capital == PctOf(portfolio_value, 100 - cfg.reserve_capital_pct)
    IN  Min(RDiv(base_size * position_multiplier(signal_strength), 10), available_capital)

RECURSIVE SumSizes(_)
\* sum(pos['size_eth'] for pos in s)
SumSizes(s) == IF s = << >> THEN 0 ELSE Head(s).size_eth + SumSizes(Tail(s))

RECURSIVE FirstHeldLonger(_, _)
\* an expiry test with > in place of >=
FirstHeldLonger(s, now) ==
    IF s = << >> THEN 0
    ELSE IF (now - Head(s).entry_time) \div TicksPerDay > Head(s).duration_days THEN 1
    ELSE LET r == FirstHeldLonger(Tail(s), now) IN IF r = 0 THEN 0 ELSE r + 1

RECURSIVE FirstHeld(_, _)
\* index of the first position of s with (now - entry_time).days >= duration_days
FirstHeld(s, now) ==
    IF s = << >> THEN 0
    ELSE IF (now - Head(s).entry_time) \div TicksPerDay >= Head(s).duration_days THEN 1
    ELSE LET r == FirstHeld(Tail(s), now) IN IF r = 0 THEN 0 ELSE r + 1

\* PortfolioManager.__init__ (PortfolioBacktester.run_backtest builds it)
InitManager ==
    /\ engine = "manager"
    /\ config \in ManagerConfigs
    /\ capital_eth = config.initial_capital_eth
    /\ peak_capital = config.initial_capital_eth
    /\ is_trading_enabled = TRUE
    /\ active_positions = << >>
    /\ trade_logs = << >>
    /\ in_drawdown = FALSE
    /\ positions = << >>
    /\ completed_trades = << >>
    /\ daily_premium_spent = << >>
    /\ pc = "next_bar"
    /\ bar_idx = 0
    /\ current_time = 0
    /\ current_price = 0
    /\ signals_seen = 0
    /\ trade = NoTrade
    /\ pnl_result = NoResult
    /\ last_event = "init"
    /\ IdleGenerator

\* calculate_drawdown() >= max_drawdown_pct, exactly
max_drawdown_reached ==
    /\ peak_capital > 0
    /\ (peak_capital - capital_eth) * 100 >= config.max_drawdown_pct * peak_capital

\* capital_eth >= recovery_level, recovery_level = peak_capital * (recovery_threshold_pct / 100)
recovered == capital_eth * 100 >= peak_capital * config.recovery_threshold_pct

\* a check without hysteresis: trading is enabled whenever the drawdown is below the limit
check_without_recovery == ~max_drawdown_reached

\* check_trading_enabled: the value of self.is_trading_enabled it leaves, which is
\* also the value it returns
check_trading_enabled ==
    IF max_drawdown_reached THEN FALSE
    ELSE IF ~is_trading_enabled THEN recovered
    ELSE is_trading_enabled

max_concurrent_reached == Len(active_positions) >= config.max_concurrent_positions

\* can_open_position: the position size it returns when it gets to compute one
sized_position(signal_strength) ==
    LET position_size == get_position_size(config, capital_eth, signal_strength)
        invested_capital == SumSizes(active_positions)
        available_capital == capital_eth - invested_capital
    IN  IF position_size > available_capital THEN available_capital ELSE position_size

\* can_open_position: "OK" or the reason of the refusal
can_open_position(signal_strength) ==
    IF ~check_trading_enabled THEN "trading_disabled"
    ELSE IF max_concurrent_reached THEN "max_concurrent"
    ELSE IF sized_position(signal_strength) <= 0 THEN "insufficient_capital"
    ELSE "OK"

\* PortfolioManager.close_position: price_change for a CALL, -price_change for a PUT,
\* in basis points
favourable_change(position, exit_price) ==
    LET price_change == RDiv((exit_price - position.entry_price) * 10000, position.entry_price)
    IN  IF position.signal_strength > 0 THEN price_change ELSE 0 - price_change

\* a close that forgets the floor of 0: an adverse move costs more than the premium
capped_pnl_without_floor(position, exit_price) ==
    Min(favourable_change(position, exit_price), position.profit_cap)

\* PortfolioManager.close_position: capped_pnl, in basis points
capped_pnl(position, exit_price) ==
    LET raw_pnl == Max(0, favourable_change(position, exit_price))
    IN  Min(raw_pnl, position.profit_cap)

\* PortfolioManager.close_position: pnl_eth, the amount credited to the capital
close_pnl_eth(position, exit_price) == BpOf(position.size_eth, capped_pnl(position, exit_price))

\* PortfolioBacktester.run_backtest: one expired position is closed,
\* PortfolioManager.close_position(pos, current_price, timestamp, "expiry")
ManagerExpirePosition ==
    /\ engine \in {"manager", "replay"}
    /\ pc = "expirations"
    /\ FirstHeld(active_positions, current_time) # 0
    /\ LET i == FirstHeld(active_positions, current_time)
           position == active_positions[i]
           pnl_eth == close_pnl_eth(position, current_price)
           capital_after == capital_eth + pnl_eth
           k == FirstWithId(trade_logs, position.trade_id)
       IN  /\ capital_eth' = capital_after
           /\ peak_capital' = IF capital_after > peak_capital THEN capital_after ELSE peak_capital
           /\ trade_logs' =
                 IF k = 0 THEN trade_logs
                 ELSE [trade_logs EXCEPT ![k] =
                         [@ EXCEPT !.exit_time = current_time,
                                   !.exit_price = current_price,
                                   !.pnl_eth = pnl_eth - position.premium_paid_eth,
                                   !.capital_after = capital_after,
                                   !.win = (pnl_eth - position.premium_paid_eth) > 0,
                                   !.exit_reason = "expiry"]]
           /\ active_positions' = RemoveAt(active_positions, i)
    /\ last_event' = "closed_expiry"
    /\ UNCHANGED << engine, pnl_vars, dsl_vars, replay_vars, service_vars, config, is_trading_enabled, corrected_vars, loop_vars >>

\* run_backtest: the row's timestamp is not in signal_dict, or its signal is 0
ManagerNoSignal ==
    /\ engine \in {"manager", "replay"}
    /\ pc = "expirations"
    /\ FirstHeld(active_positions, current_time) = 0
    /\ pc' = "next_bar"
    /\ last_event' = "neutral"
    /\ UNCHANGED << engine, pnl_vars, dsl_vars, replay_vars, service_vars, config, capital_eth, peak_capital, corrected_vars,
                    manager_vars, bar_idx, current_time, current_price, signals_seen >>

\* PortfolioManager.open_position returning None
ManagerRefuseSignal(signal) ==
    /\ engine \in {"manager", "replay"}
    /\ pc = "expirations"
    /\ FirstHeld(active_positions, current_time) = 0
    /\ signal.signal # 0
    /\ can_open_position(signal.signal) # "OK"
    /\ is_trading_enabled' = check_trading_enabled
    /\ pc' = "next_bar"
    /\ last_event' = can_open_position(signal.signal)
    /\ UNCHANGED << engine, pnl_vars, dsl_vars, replay_vars, service_vars, config, capital_eth, peak_capital, corrected_vars,
                    active_positions, trade_logs, bar_idx, current_time,
                    current_price, signals_seen >>

\* PortfolioManager.open_position returning trade_id, the first eight characters of a
\* uuid4 drawn at the call
ManagerOpenPositionAs(signal, trade_id) ==
    /\ engine \in {"manager", "replay"}
    /\ pc = "expirations"
    /\ FirstHeld(active_positions, current_time) = 0
    /\ signal.signal # 0
    /\ can_open_position(signal.signal) = "OK"
    /\ LET position_size == sized_position(signal.signal)
           premium_cost_eth == BpOf(position_size, signal.premium_cost_pct)
           position ==
              [trade_id |-> trade_id,
               entry_time |-> current_time,
               entry_price |-> current_price,
               signal_strength |-> signal.signal,
               instrument_type |-> signal.instrument_type,
               profit_cap |-> signal.profit_cap_pct,
               premium_cost |-> signal.premium_cost_pct,
               duration_days |-> signal.duration_days,
               size_eth |-> position_size,
               premium_paid_eth |-> premium_cost_eth]
           trade_log ==
              [trade_id |-> trade_id,
               entry_time |-> current_time,
               exit_time |-> NoTime,
               instrument_type |-> signal.instrument_type,
               signal_strength |-> signal.signal,
               entry_price |-> current_price,
               exit_price |-> 0,
               position_size_eth |-> position_size,
               premium_cost_eth |-> premium_cost_eth,
               pnl_eth |-> 0,
               capital_before |-> capital_eth,
               capital_after |-> 0,
               concurrent_positions |-> Len(active_positions) + 1,
               win |-> FALSE,
               exit_reason |-> ""]
       IN  /\ active_positions' = Append(active_positions, position)
           /\ capital_eth' = capital_eth - premium_cost_eth
           /\ trade_logs' = Append(trade_logs, trade_log)
    /\ is_trading_enabled' = check_trading_enabled
    /\ pc' = "next_bar"
    /\ last_event' = "opened"
    /\ UNCHANGED << engine, pnl_vars, dsl_vars, replay_vars, service_vars, config, peak_capital, corrected_vars, bar_idx,
                    current_time, current_price, signals_seen >>

\* PortfolioBacktester.run_backtest returns after the last row
ManagerReturn ==
    /\ engine = "manager"
    /\ pc = "next_bar"
    /\ pc' = "done"
    /\ last_event' = "returned"
    /\ UNCHANGED << engine, pnl_vars, dsl_vars, replay_vars, service_vars, config, capital_eth, peak_capital, corrected_vars,
                    manager_vars, bar_idx, current_time, current_price, signals_seen >>

\* open_position in a run whose ids are all different: the ids are named by the order
\* in which they were drawn
ManagerOpenPosition(signal) == ManagerOpenPositionAs(signal, Len(trade_logs) + 1)

ManagerStep(max_bars) ==
    \/ \E dt \in ManagerSteps, price \in Prices : engine = "manager" /\ BeginBar(dt, price, max_bars)
    \/ ManagerExpirePosition
    \/ ManagerNoSignal
    \/ \E signal \in ManagerSignals : ManagerRefuseSignal(signal)
    \/ \E signal \in ManagerSignals : ManagerOpenPosition(signal)
    \/ ManagerReturn

NextManager == ManagerStep(ManagerBars)

SpecManager == InitManager /\ [][NextManager]_vars

-----------------------------------------------------------------------------
(* The P&L of one trade, as each of the three programs computes it *)

\* nominal exposures (1 ETH, 2.5 ETH) and prices in cents; the prices hold the trade
\* of demonstrate_correct_calculation (4472.60 -> 4189.75) and, from 4000.00, the
\* moves of 2.2, 2.8, 5 and 10 percent
PnlNominals == {10000, 25000}
PnlPrices == {400000, 408800, 411200, 420000, 440000, 447260, 418975}

PnlTrades ==
    [nominal_eth : PnlNominals, entry_price : PnlPrices, exit_price : PnlPrices,
     is_call : BOOLEAN, instrument : DOMAIN OPTION_INSTRUMENTS]

\* OptionTrade.calculate_pnl (corrected_option_trading.py)
OptionTrade_calculate_pnl(t) ==
    LET premium_eth == BpOf(t.nominal_eth, t.premium_pct)
        move == IF t.is_call
                   THEN RDiv((t.exit_price - t.entry_price) * 10000, t.entry_price)
                   ELSE RDiv((t.entry_price - t.exit_price) * 10000, t.entry_price)
        capped_move_pct == Min(Max(move, 0), t.profit_cap_pct)
        payout_eth == BpOf(t.nominal_eth, capped_move_pct)
        net_pnl_eth == payout_eth - premium_eth
    IN  [nominal_eth |-> t.nominal_eth,
         premium_paid_eth |-> premium_eth,
         price_move_pct |-> move,
         capped_move_pct |-> capped_move_pct,
         payout_eth |-> payout_eth,
         net_pnl_eth |-> net_pnl_eth,
         win |-> net_pnl_eth > 0]

\* the OptionTrade, the OptionPosition and the PortfolioManager position of a trade
AsOptionTrade(t) ==
    [nominal_eth |-> t.nominal_eth, entry_price |-> t.entry_price,
     exit_price |-> t.exit_price, is_call |-> t.is_call,
     profit_cap_pct |-> OPTION_INSTRUMENTS[t.instrument].profit_cap_pct,
     premium_pct |-> OPTION_INSTRUMENTS[t.instrument].premium_cost_pct]

AsOptionPosition(t) ==
    [position_id |-> 1, entry_time |-> 0, expiry_time |-> 0,
     instrument_name |-> t.instrument, is_call |-> t.is_call,
     entry_price |-> t.entry_price, nominal_eth |-> t.nominal_eth,
     premium_paid_eth |-> BpOf(t.nominal_eth, OPTION_INSTRUMENTS[t.instrument].premium_cost_pct),
     profit_cap_pct |-> OPTION_INSTRUMENTS[t.instrument].profit_cap_pct,
     signal_strength |-> IF t.is_call THEN 7 ELSE 0 - 7]

AsManagerPosition(t) ==
    [trade_id |-> 1, entry_time |-> 0, entry_price |-> t.entry_price,
     signal_strength |-> IF t.is_call THEN 7 ELSE 0 - 7,
     instrument_type |-> t.instrument,
     profit_cap |-> INSTRUMENTS[t.instrument].profit_cap_pct,
     premium_cost |-> INSTRUMENTS[t.instrument].premium_cost_pct,
     duration_days |-> INSTRUMENTS[t.instrument].duration_days,
     size_eth |-> t.nominal_eth,
     premium_paid_eth |-> BpOf(t.nominal_eth, INSTRUMENTS[t.instrument].premium_cost_pct)]

InitPnl ==
    /\ engine = "pnl"
    /\ trade \in PnlTrades
    /\ pnl_result = NoResult
    /\ config = ConfigTight
    /\ capital_eth = 0
    /\ peak_capital = 0
    /\ in_drawdown = FALSE
    /\ positions = << >>
    /\ completed_trades = << >>
    /\ daily_premium_spent = << >>
    /\ is_trading_enabled = TRUE
    /\ active_positions = << >>
    /\ trade_logs = << >>
    /\ pc = "done"
    /\ bar_idx = 0
    /\ current_time = 0
    /\ current_price = 0
    /\ signals_seen = 0
    /\ last_event = "init"
    /\ IdleGenerator

\* OptionTrade(...).calculate_pnl()
TradeCalculatePnl ==
    /\ engine = "pnl"
    /\ pnl_result = NoResult
    /\ LET r == OptionTrade_calculate_pnl(AsOptionTrade(trade))
       IN  pnl_result' =
              [by |-> "OptionTrade", price_move_pct |-> r.price_move_pct,
               capped_move_pct |-> r.capped_move_pct, payout_eth |-> r.payout_eth,
               premium_paid_eth |-> r.premium_paid_eth, net_pnl_eth |-> r.net_pnl_eth,
               win |-> r.win]
    /\ last_event' = "pnl"
    /\ UNCHANGED << engine, trade, dsl_vars, replay_vars, service_vars, config, capital_eth, peak_capital, corrected_vars,
                    manager_vars, loop_vars >>

\* OptionPosition.calculate_pnl(exit_price)
PositionCalculatePnl ==
    /\ engine = "pnl"
    /\ pnl_result = NoResult
    /\ LET r == calculate_pnl(AsOptionPosition(trade), trade.exit_price)
       IN  pnl_result' =
              [by |-> "OptionPosition", price_move_pct |-> r.price_move_pct,
               capped_move_pct |-> r.capped_move_pct, payout_eth |-> r.payout_eth,
               premium_paid_eth |-> AsOptionPosition(trade).premium_paid_eth,
               net_pnl_eth |-> r.net_pnl_eth, win |-> r.win]
    /\ last_event' = "pnl"
    /\ UNCHANGED << engine, trade, dsl_vars, replay_vars, service_vars, config, capital_eth, peak_capital, corrected_vars,
                    manager_vars, loop_vars >>

\* the P&L part of PortfolioManager.close_position(position, exit_price, ...)
ManagerClosePnl ==
    /\ engine = "pnl"
    /\ pnl_result = NoResult
    /\ LET position == AsManagerPosition(trade)
           pnl_eth == close_pnl_eth(position, trade.exit_price)
       IN  pnl_result' =
              [by |-> "PortfolioManager",
               price_move_pct |-> favourable_change(position, trade.exit_price),
               capped_move_pct |-> capped_pnl(position, trade.exit_price),
               payout_eth |-> pnl_eth,
               premium_paid_eth |-> position.premium_paid_eth,
               net_pnl_eth |-> pnl_eth - position.premium_paid_eth,
               win |-> (pnl_eth - position.premium_paid_eth) > 0]
    /\ last_event' = "pnl"
    /\ UNCHANGED << engine, trade, dsl_vars, replay_vars, service_vars, config, capital_eth, peak_capital, corrected_vars,
                    manager_vars, loop_vars >>

NextPnl ==
    \/ TradeCalculatePnl
    \/ PositionCalculatePnl
    \/ ManagerClosePnl

SpecPnl == InitPnl /\ [][NextPnl]_vars

\* both backtesters
InitBacktest == InitCorrected \/ InitManager

NextBacktest == NextCorrected \/ NextManager

\* signals strong enough for one entry to bring the drawdown above the limit
BreakerSignals == [signal : {0, 1}, strength : {10}, instrument : {"3D_5PCT"}]

NextBreaker == CorrectedStepOn(DeepBars, DeepTrades, BreakerSignals) \/ NextManager

\* both backtesters over runs long enough for an expiry after the breaker has tripped
SpecBreaker == InitBacktest /\ [][NextBreaker]_vars

\* a PortfolioConfig with every percentage limit at 100
ConfigAllIn ==
    [initial_capital_eth |-> 10000, premium_per_trade_pct |-> 100,
     max_daily_premium_pct |-> 100, max_total_premium_pct |-> 100,
     max_concurrent_positions |-> 2, max_drawdown_pct |-> 12]

\* a PortfolioConfig without capital
ConfigNoCapital == [ConfigTight EXCEPT !.initial_capital_eth = 0]

\* CorrectedPortfolioBacktester.__init__ with one of these configs
InitDrawdown ==
    /\ engine = "corrected"
    /\ config \in {ConfigAllIn, ConfigNoCapital}
    /\ capital_eth = config.initial_capital_eth
    /\ peak_capital = config.initial_capital_eth
    /\ in_drawdown = FALSE
    /\ positions = << >>
    /\ completed_trades = << >>
    /\ daily_premium_spent = << >>
    /\ is_trading_enabled = TRUE
    /\ active_positions = << >>
    /\ trade_logs = << >>
    /\ pc = "next_bar"
    /\ bar_idx = 0
    /\ current_time = 0
    /\ current_price = 0
    /\ signals_seen = 0
    /\ trade = NoTrade
    /\ pnl_result = NoResult
    /\ last_event = "init"
    /\ IdleGenerator

NextDrawdown == NextBacktest \/ CheckDrawdownRaises

\* both backtesters, the corrected one at the extremes of its configuration
SpecDrawdown == (InitDrawdown \/ InitManager) /\ [][NextDrawdown]_vars

SpecBacktest == InitBacktest /\ [][NextBacktest]_vars


\* the P&L routines and both backtesters
Init == InitPnl \/ InitBacktest

Next == NextPnl \/ NextBacktest

Spec == Init /\ [][Next]_vars

-----------------------------------------------------------------------------
(* The DSL executors: AdvancedDslExecutor (full_laa_eva_system_standalone.py) *)
(* and PortfolioAwareDslExecutor (portfolio_enhanced_laa_eva.py).  A frame   *)
(* is a sequence of rows, a row maps the columns a and b to a number or to   *)
(* NaN; rows are numbered from 1, the first row is python's idx 0.           *)

\* np.nan, the value of an indicator that is not available
NaN == 0 - 1000

\* rows of a frame
MaxRows == 2

AValues == {NaN, 1, 2, 20}
BValues == {NaN, 2}
Rows == [a : AValues, b : BValues]

Frames == UNION {[1..n -> Rows] : n \in 0..MaxRows}

\* pd.isna
isna(v) == v = NaN

\* an operand that names a column, and one that is a number
Col(name) == [is_str |-> TRUE, name |-> name, value |-> 0]
Val(v) == [is_str |-> FALSE, name |-> "", value |-> v]

\* _get_value(series_or_value, row): a column of the row, np.nan for a name that is
\* no column, the number itself otherwise
get_value(series_or_value, row) ==
    IF series_or_value.is_str
        THEN IF series_or_value.name \in DOMAIN row THEN row[series_or_value.name] ELSE NaN
        ELSE series_or_value.value

\* str.lower() and str.upper() on the operator names the strategies use
Lower(op) ==
    CASE op = "IS_RISING" -> "is_rising"
      [] op = "Crosses_Above" -> "crosses_above"
      [] OTHER -> op

Upper(op) ==
    CASE op = "and" -> "AND"
      [] op = "or" -> "OR"
      [] op = "xor" -> "XOR"
      [] OTHER -> op

\* an undefined-operand test that looks at series1 only
first_undefined(val1, val2) == isna(val1)

\* _evaluate_condition: pd.isna(val1) or pd.isna(val2)
either_undefined(val1, val2) == isna(val1) \/ isna(val2)

\* a crossing test with < in place of <=
crosses_above_strict(prev_val1, prev_val2, val1, val2) == prev_val1 < prev_val2 /\ val1 > val2

\* _evaluate_condition: prev_val1 <= prev_val2 and val1 > val2
crosses_above(prev_val1, prev_val2, val1, val2) == prev_val1 <= prev_val2 /\ val1 > val2

\* _evaluate_condition: prev_val1 >= prev_val2 and val1 < val2
crosses_below(prev_val1, prev_val2, val1, val2) == prev_val1 >= prev_val2 /\ val1 < val2

\* a range test that excludes its ends
strictly_between(lower, val1, upper) == lower < val1 /\ val1 < upper

\* _evaluate_condition: lower <= val1 <= upper
between(lower, val1, upper) == lower <= val1 /\ val1 <= upper

\* condition.get('lower_bound', val2 - 10) and condition.get('upper_bound', val2 + 10)
lower_of(condition, val2) == IF condition.has_lower THEN condition.lower_bound ELSE val2 - 10
upper_of(condition, val2) == IF condition.has_upper THEN condition.upper_bound ELSE val2 + 10

\* a trend test that accepts an unchanged value
not_falling(prev_val1, val1) == val1 >= prev_val1

\* _evaluate_condition: val1 > prev_val1
is_rising(prev_val1, val1) == val1 > prev_val1

\* _evaluate_condition: val1 < prev_val1
is_falling(prev_val1, val1) == val1 < prev_val1

\* the operators PortfolioAwareDslExecutor._evaluate_condition knows
PortfolioAwareOperators == {">", "<", ">=", "<=", "==", "!=", "crosses_above", "crosses_below"}

\* _evaluate_condition(condition, row, df, idx) of the executor class ex at row i of frame
evaluate_condition(ex, condition, frame, i) ==
    LET operator == Lower(condition.operator)
        val1 == get_value(condition.series1, frame[i])
        val2 == get_value(condition.series2_or_value, frame[i])
        prev_val1 == get_value(condition.series1, frame[i - 1])
        prev_val2 == get_value(condition.series2_or_value, frame[i - 1])
    IN  IF either_undefined(val1, val2) THEN FALSE
        ELSE IF ex = "PortfolioAware" /\ operator \notin PortfolioAwareOperators THEN FALSE
        ELSE CASE operator = ">" -> val1 > val2
               [] operator = "<" -> val1 < val2
               [] operator = ">=" -> val1 >= val2
               [] operator = "<=" -> val1 <= val2
               [] operator = "==" -> val1 = val2
               [] operator = "!=" -> val1 # val2
               [] operator \in {"crosses_above", "crosses_below"} ->
                     IF i - 1 < 1 THEN FALSE
                     ELSE IF isna(prev_val1) \/ isna(prev_val2) THEN FALSE
                     ELSE IF operator = "crosses_above"
                             THEN crosses_above(prev_val1, prev_val2, val1, val2)
                             ELSE crosses_below(prev_val1, prev_val2, val1, val2)
               [] operator \in {"is_rising", "is_falling"} ->
                     IF i - 1 < 1 THEN FALSE
                     ELSE IF isna(prev_val1) THEN FALSE
                     ELSE IF operator = "is_rising"
                             THEN is_rising(prev_val1, val1)
                             ELSE is_falling(prev_val1, val1)
               [] operator = "is_between" ->
                     between(lower_of(condition, val2), val1, upper_of(condition, val2))
               [] operator = "is_not_between" ->
                     ~between(lower_of(condition, val2), val1, upper_of(condition, val2))
               [] OTHER -> FALSE

\* a group that skips the test for an empty list: all([]) is True
evaluate_group_unguarded(ex, group, frame, i) ==
    LET operator == Upper(group.operator)
        conditions == group.conditions
    IN  CASE operator = "AND" ->
                \A k \in 1..Len(conditions) : evaluate_condition(ex, conditions[k], frame, i)
          [] operator = "OR" ->
                \E k \in 1..Len(conditions) : evaluate_condition(ex, conditions[k], frame, i)
          [] OTHER -> FALSE

\* _evaluate_condition_group(group, row, df, idx)
evaluate_condition_group(ex, group, frame, i) ==
    LET operator == Upper(group.operator)
        conditions == group.conditions
    IN  IF conditions = << >> THEN FALSE
        ELSE CASE operator = "AND" ->
                     \A k \in 1..Len(conditions) : evaluate_condition(ex, conditions[k], frame, i)
               [] operator = "OR" ->
                     \E k \in 1..Len(conditions) : evaluate_condition(ex, conditions[k], frame, i)
               [] OTHER -> FALSE

RECURSIVE LastTrueRule(_, _, _, _)
\* a rule loop without the break: the last rule that is true wins
LastTrueRule(ex, rules, frame, i) ==
    IF rules = << >> THEN 0
    ELSE IF evaluate_condition_group(ex, rules[Len(rules)].conditions_group, frame, i)
            THEN Len(rules)
            ELSE LastTrueRule(ex, SubSeq(rules, 1, Len(rules) - 1), frame, i)

RECURSIVE FirstTrueRule(_, _, _, _)
\* generate_signals: index of the first rule of the list whose group is true at row i
\* (the loop breaks there), 0 when no rule is true
FirstTrueRule(ex, rules, frame, i) ==
    IF rules = << >> THEN 0
    ELSE IF evaluate_condition_group(ex, Head(rules).conditions_group, frame, i) THEN 1
    ELSE LET r == FirstTrueRule(ex, Tail(rules), frame, i) IN IF r = 0 THEN 0 ELSE r + 1

\* self.dsl.get('default_action_on_no_match', {... 'strength': 0 ...})
default_action(strategy) ==
    IF strategy.has_default THEN strategy.default_action_on_no_match ELSE [strength |-> 0]

\* generate_signals: the signal appended for row i
signal_for_row(ex, strategy, frame, i) ==
    LET r == FirstTrueRule(ex, strategy.signal_rules, frame, i)
    IN  IF r # 0
           THEN [timestamp |-> i,
                 signal |-> strategy.signal_rules[r].action_on_true.strength,
                 rule_triggered |-> strategy.signal_rules[r].rule_name]
           ELSE [timestamp |-> i,
                 signal |-> default_action(strategy).strength,
                 rule_triggered |-> "DEFAULT"]

\* a condition of a strategy definition; has_lower and has_upper say whether the keys
\* lower_bound and upper_bound are present
Condition(series1, operator, series2_or_value, has_lower, lower_bound, has_upper, upper_bound) ==
    [series1 |-> series1, operator |-> operator, series2_or_value |-> series2_or_value,
     has_lower |-> has_lower, lower_bound |-> lower_bound,
     has_upper |-> has_upper, upper_bound |-> upper_bound]

Plain(series1, operator, series2_or_value) ==
    Condition(series1, operator, series2_or_value, FALSE, 0, FALSE, 0)

Rule(rule_name, operator, conditions, strength) ==
    [rule_name |-> rule_name,
     conditions_group |-> [operator |-> operator, conditions |-> conditions],
     action_on_true |-> [strength |-> strength]]

Strategy(signal_rules, has_default, strength) ==
    [signal_rules |-> signal_rules, has_default |-> has_default,
     default_action_on_no_match |-> [strength |-> strength]]

Operators ==
    {">", "<", ">=", "<=", "==", "!=", "crosses_above", "crosses_below",
     "is_rising", "is_falling", "is_between", "is_not_between"}

\* operator names as strategies spell them: the known ones, two in other case, one unknown
SpelledOperators == Operators \cup {"IS_RISING", "Crosses_Above", "near"}

\* the operand pairs (series1, series2_or_value) of the conditions: two columns, a column
\* and a number, and a name that is no column on either side
OperandPairs ==
    {<< Col("a"), Col("b") >>, << Col("a"), Val(12) >>, << Col("a"), Col("nocol") >>,
     << Col("nocol"), Col("b") >>}

\* conditions with explicit bounds: both, the lower one only, the upper one only
BoundedConditions ==
    {Condition(o[1], op, o[2], bounds[1], 2, bounds[2], 20) :
        o \in OperandPairs, op \in {"is_between", "is_not_between"},
        bounds \in {<<TRUE, TRUE>>, <<TRUE, FALSE>>, <<FALSE, TRUE>>}}

ProbeConditions ==
    {Plain(o[1], op, o[2]) : o \in OperandPairs, op \in SpelledOperators}
        \cup BoundedConditions

\* strategies of one rule with one condition
ProbeStrategies == {Strategy(<< Rule("R1", "AND", << c >>, 5) >>, FALSE, 0) : c \in ProbeConditions}

GroupConditions ==
    {Plain(Col("a"), ">", Col("b")), Plain(Col("a"), "is_rising", Val(12)),
     Plain(Col("nocol"), "!=", Col("b"))}

GroupOperators == {"AND", "OR", "and", "XOR"}

\* strategies of one rule with a group of zero, one or two conditions
GroupStrategies ==
    {Strategy(<< Rule("R1", op, cs, 5) >>, FALSE, 0) :
        op \in GroupOperators, cs \in UNION {[1..n -> GroupConditions] : n \in 0..2}}

RuleGE == Rule("GE", "AND", << Plain(Col("a"), ">=", Col("b")) >>, 5)
RuleGT == Rule("GT", "AND", << Plain(Col("a"), ">", Col("b")) >>, 0 - 3)
RuleLT == Rule("LT", "AND", << Plain(Col("a"), "<", Col("b")) >>, 7)

\* strategies of several rules, some of them true at the same row
OrderedStrategies ==
    {Strategy(rules, has_default, 0 - 1) :
        rules \in {<< >>, << RuleGE, RuleGT >>, << RuleGT, RuleGE >>, << RuleLT, RuleGE >>,
                   << RuleLT, RuleGT, RuleGE >>},
        has_default \in BOOLEAN}

Strategies == ProbeStrategies \cup GroupStrategies \cup OrderedStrategies

Executors == {"Advanced", "PortfolioAware"}

\* the executor is constructed with a strategy; generate_signals is called on a frame
InitDsl ==
    /\ engine = "dsl"
    /\ executor \in Executors
    /\ dsl \in Strategies
    /\ df \in Frames
    /\ idx = 0
    /\ signals = << >>
    /\ run_no = 1
    /\ first_output = << >>
    /\ IdleServices
    /\ config = ConfigTight
    /\ capital_eth = 0
    /\ peak_capital = 0
    /\ in_drawdown = FALSE
    /\ positions = << >>
    /\ completed_trades = << >>
    /\ daily_premium_spent = << >>
    /\ is_trading_enabled = TRUE
    /\ active_positions = << >>
    /\ trade_logs = << >>
    /\ pc = "generating"
    /\ bar_idx = 0
    /\ current_time = 0
    /\ current_price = 0
    /\ signals_seen = 0
    /\ trade = NoTrade
    /\ pnl_result = NoResult
    /\ last_event = "init"

\* generate_signals: one turn of the loop over the rows
GenerateRow ==
    /\ engine \in {"dsl", "replay"}
    /\ pc = "generating"
    /\ idx < Len(df)
    /\ idx' = idx + 1
    /\ signals' = Append(signals, signal_for_row(executor, dsl, df, idx + 1))
    /\ last_event' = "signal"
    /\ UNCHANGED << engine, pnl_vars, executor, dsl, df, replay_vars, service_vars, config, capital_eth,
                    peak_capital, corrected_vars, manager_vars, loop_vars >>

\* generate_signals: return signals
GenerateReturn ==
    /\ engine = "dsl"
    /\ pc = "generating"
    /\ idx = Len(df)
    /\ pc' = "done"
    /\ last_event' = "returned"
    /\ UNCHANGED << engine, pnl_vars, dsl_vars, replay_vars, service_vars, config, capital_eth,
                    peak_capital, corrected_vars, manager_vars, bar_idx, current_time,
                    current_price, signals_seen >>

NextDsl == GenerateRow \/ GenerateReturn

SpecDsl == InitDsl /\ [][NextDsl]_vars

-----------------------------------------------------------------------------
(* portfolio_enhanced_laa_eva.py: the same strategy run twice on the same series,    *)
(* PortfolioAwareDslExecutor.generate_signals followed by                            *)
(* PortfolioBacktester.run_backtest, each time on fresh objects                      *)

\* the series has one row more than the frames of the executor alone
ReplayRows == MaxRows + 1

\* row['close'] of the rows of the series
ReplayCloses == {1000, 1100}

\* the series: every row has the column close; the rows are three days apart
ReplayFrames == [1..ReplayRows -> [close : ReplayCloses]]

\* timestamp of row i of the series, in ticks
ReplayTime(i) == (i - 1) * 3 * TicksPerDay

\* a strategy that buys a CALL on a high close and is neutral otherwise, and one that
\* buys a strong PUT on a low close and a CALL by default
ReplayStrategies ==
    {Strategy(<< Rule("UP", "AND", << Plain(Col("close"), ">=", Val(1100)) >>, 5) >>, FALSE, 0),
     Strategy(<< Rule("DOWN", "AND", << Plain(Col("close"), "<", Val(1100)) >>, 0 - 7) >>, TRUE, 3)}

\* str(uuid.uuid4())[:8]: the values one call may return
TradeIds == {"1f0c3a9e", "b47d02c6", "e95a7713"}

\* _select_instrument for a rule without instrument_selection and instrument_type, on a
\* row without expected_move_pct and atr_value whose close is below 1666 (volatility
\* 50 / close * 100 > 3.0, expected_move 2.0); also the default action's instrument
selected_instrument == "3D_5PCT"

\* signal_dict[timestamp] at the current row, as generate_signals built it
signal_at_row == EnhancedOptionsSignal(signals[bar_idx].signal, selected_instrument)

\* TradeLog.to_dict: the amounts are rounded to 4 decimals of an ETH and the prices to 2,
\* which the units of the model already are; an exit price that is unset stays unset
to_dict(log) ==
    [trade_id |-> log.trade_id,
     entry_time |-> log.entry_time,
     exit_time |-> log.exit_time,
     instrument_type |-> log.instrument_type,
     signal_strength |-> log.signal_strength,
     entry_price |-> log.entry_price,
     exit_price |-> IF log.exit_price # 0 THEN log.exit_price ELSE 0,
     position_size_eth |-> log.position_size_eth,
     premium_cost_eth |-> log.premium_cost_eth,
     pnl_eth |-> log.pnl_eth,
     capital_before |-> log.capital_before,
     capital_after |-> IF log.capital_after # 0 THEN log.capital_after ELSE 0,
     concurrent_positions |-> log.concurrent_positions,
     win |-> log.win,
     exit_reason |-> log.exit_reason]

\* run_backtest: 'trade_logs': [log.to_dict() for log in portfolio_manager.trade_logs]
output_of(logs) == [k \in 1..Len(logs) |-> to_dict(logs[k])]

\* the executor and the backtester are constructed for the first run
InitReplay ==
    /\ engine = "replay"
    /\ executor = "PortfolioAware"
    /\ dsl \in ReplayStrategies
    /\ df \in ReplayFrames
    /\ idx = 0
    /\ signals = << >>
    /\ run_no = 1
    /\ first_output = << >>
    /\ IdleServices
    /\ config \in ManagerConfigs
    /\ capital_eth = config.initial_capital_eth
    /\ peak_capital = config.initial_capital_eth
    /\ is_trading_enabled = TRUE
    /\ active_positions = << >>
    /\ trade_logs = << >>
    /\ in_drawdown = FALSE
    /\ positions = << >>
    /\ completed_trades = << >>
    /\ daily_premium_spent = << >>
    /\ pc = "generating"
    /\ bar_idx = 0
    /\ current_time = 0
    /\ current_price = 0
    /\ signals_seen = 0
    /\ trade = NoTrade
    /\ pnl_result = NoResult
    /\ last_event = "init"

\* generate_signals returns and run_backtest is called with its signals
ReplayRunBacktest ==
    /\ engine = "replay"
    /\ pc = "generating"
    /\ idx = Len(df)
    /\ pc' = "next_bar"
    /\ last_event' = "signals_generated"
    /\ UNCHANGED << engine, pnl_vars, dsl_vars, replay_vars, service_vars, config, capital_eth,
                    peak_capital, corrected_vars, manager_vars, bar_idx, current_time,
                    current_price, signals_seen >>

\* the loop of run_backtest takes the next row of the series
ReplayBeginBar ==
    /\ engine = "replay"
    /\ pc = "next_bar"
    /\ bar_idx < Len(df)
    /\ bar_idx' = bar_idx + 1
    /\ current_time' = ReplayTime(bar_idx + 1)
    /\ current_price' = df[bar_idx + 1].close
    /\ pc' = "expirations"
    /\ last_event' = "bar"
    /\ UNCHANGED << engine, pnl_vars, dsl_vars, replay_vars, service_vars, config, capital_eth,
                    peak_capital, corrected_vars, manager_vars, signals_seen >>

\* run_backtest: the signal of the row is 0
ReplayNoSignal ==
    /\ engine = "replay"
    /\ pc = "expirations"
    /\ signal_at_row.signal = 0
    /\ ManagerNoSignal

\* run_backtest: open_position refuses the signal of the row
ReplayRefuseSignal ==
    /\ engine = "replay"
    /\ pc = "expirations"
    /\ ManagerRefuseSignal(signal_at_row)

\* run_backtest: open_position opens a position for the signal of the row
ReplayOpenPosition ==
    /\ engine = "replay"
    /\ pc = "expirations"
    /\ \E trade_id \in TradeIds : ManagerOpenPositionAs(signal_at_row, trade_id)

\* the first run returns its trade logs; a fresh executor and a fresh backtester are
\* constructed for the second run on the same strategy and series
ReplayFirstReturn ==
    /\ engine = "replay"
    /\ pc = "next_bar"
    /\ bar_idx = Len(df)
    /\ run_no = 1
    /\ first_output' = output_of(trade_logs)
    /\ UNCHANGED service_vars
    /\ run_no' = 1 + 1
    /\ idx' = 0
    /\ signals' = << >>
    /\ capital_eth' = config.initial_capital_eth
    /\ peak_capital' = config.initial_capital_eth
    /\ is_trading_enabled' = TRUE
    /\ active_positions' = << >>
    /\ trade_logs' = << >>
    /\ pc' = "generating"
    /\ bar_idx' = 0
    /\ current_time' = 0
    /\ current_price' = 0
    /\ last_event' = "first_returned"
    /\ UNCHANGED << engine, pnl_vars, executor, dsl, df, config, corrected_vars, signals_seen >>

\* the second run returns its trade logs
ReplaySecondReturn ==
    /\ engine = "replay"
    /\ pc = "next_bar"
    /\ bar_idx = Len(df)
    /\ run_no = 1 + 1
    /\ pc' = "done"
    /\ last_event' = "returned"
    /\ UNCHANGED << engine, pnl_vars, dsl_vars, replay_vars, service_vars, config, capital_eth,
                    peak_capital, corrected_vars, manager_vars, bar_idx, current_time,
                    current_price, signals_seen >>

NextReplay ==
    \/ GenerateRow
    \/ ReplayRunBacktest
    \/ ReplayBeginBar
    \/ ManagerExpirePosition
    \/ ReplayNoSignal
    \/ ReplayRefuseSignal
    \/ ReplayOpenPosition
    \/ ReplayFirstReturn
    \/ ReplaySecondReturn

SpecReplay == InitReplay /\ [][NextReplay]_vars

-----------------------------------------------------------------------------
(* portfolio_enhanced_laa_eva.py: PortfolioAwareDslExecutor._select_instrument, the   *)
(* same routine as EnhancedDslExecutor._select_instrument                            *)

\* an operand that is a reference to a constant of the strategy: a string that starts
\* with '@'
Ref(name) == [is_str |-> TRUE, name |-> name, value |-> 0]

\* the references the strategies use
RefNames == {"@high_vol_threshold", "@limit", "@missing"}

\* isinstance(value_or_ref, str) and value_or_ref.startswith("@")
is_ref(value_or_ref) == value_or_ref.is_str /\ value_or_ref.name \in RefNames

\* const_name = value_or_ref[1:]
const_name(name) ==
    CASE name = "@high_vol_threshold" -> "high_vol_threshold"
      [] name = "@limit" -> "limit"
      [] name = "@missing" -> "missing"
      [] OTHER -> name

\* _resolve_value raises ValueError("Undefined constant")
undefined_constant(constants, value_or_ref) ==
    is_ref(value_or_ref) /\ const_name(value_or_ref.name) \notin DOMAIN constants

\* _resolve_value when it returns: the constant for a reference, the value itself
\* otherwise
resolve_value(constants, value_or_ref) ==
    IF is_ref(value_or_ref)
        THEN Val(constants[const_name(value_or_ref.name)])
        ELSE value_or_ref

\* row.get(name, default)
row_get(row, name, default) == IF name \in DOMAIN row THEN row[name] ELSE default

\* a > b and a < b on floats: False when either side is nan
gt(a, b) == ~isna(a) /\ ~isna(b) /\ a > b
lt(a, b) == ~isna(a) /\ ~isna(b) /\ a < b

\* volatility > volatility_threshold, volatility = atr_value / close * 100, exactly
volatility_above(row, volatility_threshold) ==
    LET atr_value == row_get(row, "atr_value", 50)
        close == row_get(row, "close", 1)
    IN  ~isna(atr_value) /\ ~isna(close) /\ ~isna(volatility_threshold)
          /\ atr_value * 100 > volatility_threshold * close

\* a short instrument whose higher cap is taken at the cut-off already
short_instrument_inclusive(expected_move) ==
    IF ~lt(expected_move, 7) /\ ~isna(expected_move) THEN "3D_10PCT" ELSE "3D_5PCT"

\* strong signal, high volatility
short_instrument(expected_move) == IF gt(expected_move, 7) THEN "3D_10PCT" ELSE "3D_5PCT"

\* strong signal, low volatility
long_instrument(expected_move) == IF gt(expected_move, 5) THEN "7D_10PCT" ELSE "7D_5PCT"

\* weak signal
weak_instrument(high_volatility, expected_move) ==
    IF high_volatility THEN "3D_5PCT"
    ELSE IF lt(expected_move, 5) THEN "7D_5PCT" ELSE "3D_5PCT"

\* rule_metadata.get('volatility_threshold', 3.0)
vol_threshold_raw(rule) ==
    IF rule.instrument_selection.has_volatility_threshold
        THEN rule.instrument_selection.volatility_threshold
        ELSE Val(3)

\* _select_instrument raises: the threshold is a reference to an undefined constant
select_instrument_raises(constants, rule) ==
    undefined_constant(constants, vol_threshold_raw(rule))

\* _select_instrument: the instrument_type it passes to get_instrument
select_instrument_type(constants, rule, row) ==
    LET expected_move == row_get(row, "expected_move_pct", 2)
        volatility_threshold == resolve_value(constants, vol_threshold_raw(rule)).value
        high_volatility == volatility_above(row, volatility_threshold)
        signal_strength == Abs(rule.action_on_true.strength)
    IN  IF rule.action_on_true.has_instrument_type THEN rule.action_on_true.instrument_type
        ELSE IF signal_strength >= 7
            THEN IF high_volatility THEN short_instrument(expected_move)
                                    ELSE long_instrument(expected_move)
            ELSE weak_instrument(high_volatility, expected_move)

\* OptionInstruments.get_instrument followed by the search of its key in INSTRUMENTS:
\* the type of the instrument the signal carries
get_instrument(instrument_type) ==
    IF instrument_type \in DOMAIN INSTRUMENTS THEN instrument_type ELSE "3D_5PCT"

\* a rule with an action and instrument selection hints
SelectRule(rule_name, conditions, strength, has_type, instrument_type, has_threshold, threshold) ==
    [rule_name |-> rule_name,
     conditions_group |-> [operator |-> "AND", conditions |-> conditions],
     action_on_true |-> [strength |-> strength, has_instrument_type |-> has_type,
                         instrument_type |-> instrument_type],
     instrument_selection |-> [has_volatility_threshold |-> has_threshold,
                               volatility_threshold |-> threshold]]

\* a strategy with constants, indicator specifications and rules
ConfiguredStrategy(constants, indicators, signal_rules) ==
    [constants |-> constants, indicators |-> indicators, signal_rules |-> signal_rules,
     has_default |-> FALSE, default_action_on_no_match |-> [strength |-> 0]]

\* the constants maps of the strategies: with a lower and a higher volatility and
\* expected-move threshold, and one without the volatility threshold
SelectConstants ==
    {[high_vol_threshold |-> 3, expected_move_threshold |-> 5],
     [high_vol_threshold |-> 2, expected_move_threshold |-> 6],
     [expected_move_threshold |-> 5]}

SelectStrengths == {3, 0 - 3, 7, 0 - 8}

\* the instrument hints of an action: none, one of the catalog, one that is not
SelectHints == {<< FALSE, "" >>, << TRUE, "7D_10PCT" >>, << TRUE, "30D_5PCT" >>}

\* the volatility thresholds of a rule: none, a number, a reference
SelectThresholds == {<< FALSE, Val(0) >>, << TRUE, Val(2) >>, << TRUE, Ref("@high_vol_threshold") >>}

SelectStrategies ==
    {ConfiguredStrategy(c, << >>,
        << SelectRule("R1", << >>, st, h[1], h[2], t[1], t[2]) >>) :
        c \in SelectConstants, st \in SelectStrengths, h \in SelectHints,
        t \in SelectThresholds}

\* rows with a volatility of 2, 3 and 5 percent or none, and an expected move around
\* both cut-offs or none; and a row without the column atr_value
SelectRows ==
    [close : {1000}, atr_value : {20, 30, 50, NaN}, expected_move_pct : {4, 5, 6, 7, 8, NaN}]
        \cup {[close |-> 1000, expected_move_pct |-> 6]}

\* an executor with a strategy, and a row its rule fired on
InitSelect ==
    /\ engine = "select"
    /\ executor = "PortfolioAware"
    /\ dsl \in SelectStrategies
    /\ df \in {<< row >> : row \in SelectRows}
    /\ idx = 0
    /\ signals = << >>
    /\ run_no = 1
    /\ first_output = << >>
    /\ IdleServices
    /\ config = ConfigTight
    /\ capital_eth = 0
    /\ peak_capital = 0
    /\ in_drawdown = FALSE
    /\ positions = << >>
    /\ completed_trades = << >>
    /\ daily_premium_spent = << >>
    /\ is_trading_enabled = TRUE
    /\ active_positions = << >>
    /\ trade_logs = << >>
    /\ pc = "selecting"
    /\ bar_idx = 0
    /\ current_time = 0
    /\ current_price = 0
    /\ signals_seen = 0
    /\ trade = NoTrade
    /\ pnl_result = NoResult
    /\ last_event = "init"

\* _select_instrument(rule, row) returns an instrument
SelectInstrument ==
    /\ engine = "select"
    /\ pc = "selecting"
    /\ ~select_instrument_raises(dsl.constants, dsl.signal_rules[1])
    /\ idx' = idx + 1
    /\ signals' = << [instrument_type |->
                        get_instrument(select_instrument_type(dsl.constants,
                                                              dsl.signal_rules[1], df[1]))] >>
    /\ pc' = "done"
    /\ last_event' = "selected"
    /\ UNCHANGED << engine, pnl_vars, executor, dsl, df, replay_vars, service_vars, config, capital_eth,
                    peak_capital, corrected_vars, manager_vars, bar_idx, current_time,
                    current_price, signals_seen >>

\* _select_instrument(rule, row) raises ValueError
SelectRaises ==
    /\ engine = "select"
    /\ pc = "selecting"
    /\ select_instrument_raises(dsl.constants, dsl.signal_rules[1])
    /\ pc' = "raised"
    /\ last_event' = "ValueError"
    /\ UNCHANGED << engine, pnl_vars, dsl_vars, replay_vars, service_vars, config, capital_eth,
                    peak_capital, corrected_vars, manager_vars, bar_idx, current_time,
                    current_price, signals_seen >>

NextSelect == SelectInstrument \/ SelectRaises

SpecSelect == InitSelect /\ [][NextSelect]_vars

-----------------------------------------------------------------------------
(* portfolio_enhanced_laa_eva.py: PortfolioAwareDslExecutor.generate_signals with    *)
(* constants, indicator specifications and instrument selection                      *)

RECURSIVE SumClose(_, _, _)
\* sum of close over the rows from..to of the frame
SumClose(frame, from, to) ==
    IF from > to THEN 0 ELSE frame[from].close + SumClose(frame, from + 1, to)

\* TechnicalIndicators.sma at row i: series.rolling(window=period).mean()
sma(frame, period, i) ==
    IF i < period THEN NaN ELSE RDiv(SumClose(frame, i - period + 1, i), period)

\* the indicator types _calculate_indicators has a branch for
IndicatorTypes == {"rsi", "macd", "sma", "ema", "atr"}

\* an indicator specification with one parameter, length, and its output column
Indicator(type, length, column) == [type |-> type, length |-> length, column |-> column]

\* _calculate_indicators raises: a parameter refers to an undefined constant
calculate_indicators_raises(strategy) ==
    \E k \in 1..Len(strategy.indicators) :
        undefined_constant(strategy.constants, strategy.indicators[k].length)

RECURSIVE with_indicators(_, _, _, _)
\* row i of df_with_indicators after the indicators from k on were computed: a column is
\* added for an sma, nothing is done for a type that has no branch
with_indicators(strategy, frame, i, k) ==
    IF k > Len(strategy.indicators) THEN frame[i]
    ELSE LET indicator == strategy.indicators[k]
             length == resolve_value(strategy.constants, indicator.length).value
             rest == with_indicators(strategy, frame, i, k + 1)
         IN  IF indicator.type = "sma"
                THEN IF indicator.column \in DOMAIN rest THEN rest
                     ELSE (indicator.column :> sma(frame, length, i)) @@ rest
                ELSE rest

\* _calculate_indicators: expected_move_pct of a row, (atr_value / close) * 100 when the
\* frame has the column atr_value and 2.0 otherwise (rsi_value and macd_hist are absent)
expected_move_of(row) ==
    IF "atr_value" \in DOMAIN row
        THEN IF isna(row.atr_value) THEN NaN ELSE RDiv(row.atr_value * 100, row.close)
        ELSE 2

\* _calculate_indicators when it returns
calculate_indicators(strategy, frame) ==
    [i \in 1..Len(frame) |->
        LET row == with_indicators(strategy, frame, i, 1)
        IN  ("expected_move_pct" :> expected_move_of(row)) @@ row]

\* a condition whose references to defined constants are resolved, as _get_value does
\* at each evaluation
resolved_condition(constants, condition) ==
    [condition EXCEPT !.series1 = resolve_value(constants, @),
                      !.series2_or_value = resolve_value(constants, @)]

resolved_group(constants, group) ==
    [group EXCEPT !.conditions =
        [k \in 1..Len(group.conditions) |-> resolved_condition(constants, group.conditions[k])]]

\* _evaluate_condition_group raises: the group is not empty and _get_value raises for an
\* operand of one of its conditions (every condition is evaluated)
group_raises(constants, group) ==
    \E k \in 1..Len(group.conditions) :
        \/ undefined_constant(constants, group.conditions[k].series1)
        \/ undefined_constant(constants, group.conditions[k].series2_or_value)

\* generate_signals: default_action.get('instrument_type', '3D_5PCT')
default_instrument_type(strategy) ==
    IF "instrument_type" \in DOMAIN default_action(strategy)
        THEN default_action(strategy).instrument_type
        ELSE "3D_5PCT"

RECURSIVE rule_outcome(_, _, _, _)
\* generate_signals: the loop over the rules at row i, from rule k on: the rule at which
\* the loop stops (0 for none), and whether it stops there by an exception
rule_outcome(strategy, frame, i, k) ==
    IF k > Len(strategy.signal_rules) THEN [raised |-> FALSE, rule |-> 0]
    ELSE LET rule == strategy.signal_rules[k]
         IN  IF group_raises(strategy.constants, rule.conditions_group)
                THEN [raised |-> TRUE, rule |-> k]
             ELSE IF evaluate_condition_group("PortfolioAware",
                        resolved_group(strategy.constants, rule.conditions_group), frame, i)
                THEN [raised |-> select_instrument_raises(strategy.constants, rule), rule |-> k]
             ELSE rule_outcome(strategy, frame, i, k + 1)

\* generate_signals: the EnhancedOptionsSignal appended for row i when rule r fired
\* (r = 0: the default action)
configured_signal(strategy, frame, i, r) ==
    IF r # 0
        THEN LET rule == strategy.signal_rules[r]
                 instrument_type ==
                    get_instrument(select_instrument_type(strategy.constants, rule, frame[i]))
             IN  [timestamp |-> i,
                  signal |-> rule.action_on_true.strength,
                  rule_triggered |-> rule.rule_name,
                  instrument_type |-> instrument_type,
                  profit_cap_pct |-> INSTRUMENTS[instrument_type].profit_cap_pct,
                  premium_cost_pct |-> INSTRUMENTS[instrument_type].premium_cost_pct,
                  duration_days |-> INSTRUMENTS[instrument_type].duration_days]
        ELSE LET default_instrument == get_instrument(default_instrument_type(strategy))
             IN  [timestamp |-> i,
                  signal |-> default_action(strategy).strength,
                  rule_triggered |-> "DEFAULT",
                  instrument_type |-> default_instrument_type(strategy),
                  profit_cap_pct |-> INSTRUMENTS[default_instrument].profit_cap_pct,
                  premium_cost_pct |-> INSTRUMENTS[default_instrument].premium_cost_pct,
                  duration_days |-> INSTRUMENTS[default_instrument].duration_days]

ConfigConstants == [limit |-> 1100, high_vol_threshold |-> 3]

RuleUp == SelectRule("UP", << Plain(Col("close"), ">=", Ref("@limit")) >>, 5, FALSE, "", FALSE, Val(0))
RuleBad == SelectRule("BAD", << Plain(Col("close"), ">=", Ref("@missing")) >>, 5, FALSE, "", FALSE, Val(0))
RuleAlways == SelectRule("ALWAYS", << Plain(Col("close"), ">", Val(0)) >>, 3, FALSE, "", FALSE, Val(0))
RuleUnknown ==
    SelectRule("UNKNOWN", << Plain(Col("close"), ">=", Val(1100)) >>, 7, TRUE, "30D_5PCT", FALSE, Val(0))
RuleThreshold ==
    SelectRule("THRESHOLD", << Plain(Col("close"), ">=", Val(1100)) >>, 7, FALSE, "", TRUE, Ref("@missing"))
RuleFast == SelectRule("FAST", << Plain(Col("fast"), ">=", Ref("@limit")) >>, 0 - 7, FALSE, "", FALSE, Val(0))
RuleStoch == SelectRule("STOCH", << Plain(Col("stoch"), ">", Val(0)) >>, 5, FALSE, "", FALSE, Val(0))

\* strategies whose references are all defined, strategies with a reference to an
\* undefined constant in a condition, in an instrument threshold and in an indicator
\* parameter, a strategy with an indicator of unknown type and one with an unknown
\* instrument
ConfigStrategies ==
    {ConfiguredStrategy(ConfigConstants, << >>, << RuleUp >>),
     ConfiguredStrategy(ConfigConstants, << >>, << RuleBad >>),
     ConfiguredStrategy(ConfigConstants, << >>, << RuleAlways, RuleBad >>),
     ConfiguredStrategy(ConfigConstants, << >>, << RuleUp, RuleBad >>),
     ConfiguredStrategy(ConfigConstants, << >>, << RuleThreshold >>),
     ConfiguredStrategy(ConfigConstants, << Indicator("sma", Ref("@missing"), "fast") >>, << RuleUp >>),
     ConfiguredStrategy(ConfigConstants, << Indicator("stochastic", Val(1), "stoch") >>, << RuleStoch >>),
     ConfiguredStrategy(ConfigConstants, << >>, << RuleUnknown >>),
     ConfiguredStrategy(ConfigConstants, << Indicator("sma", Val(1 + 1), "fast") >>, << RuleFast >>)}

\* the frames given to generate_signals: up to MaxRows rows with a close
ConfigFrames == UNION {[1..n -> [close : {1000, 1100}]] : n \in 0..MaxRows}

\* a rule that names its instrument, for a strength on either side of 7
RuleHinted(strength, instrument_type) ==
    SelectRule("HINTED", << Plain(Col("close"), ">=", Val(1100)) >>, strength, TRUE,
               instrument_type, FALSE, Val(0))

\* the strategy with the action default_action taken when no rule matches
WithDefault(strategy, action) ==
    [strategy EXCEPT !.has_default = TRUE, !.default_action_on_no_match = action]

\* the default actions of the strategies: with an instrument of the catalog, without an
\* instrument and with one that is not in the catalog
DefaultActions ==
    {[strength |-> 0, instrument_type |-> "7D_5PCT"],
     [strength |-> 0],
     [strength |-> 0, instrument_type |-> "30D_5PCT"]}

\* strategies of one rule that names an instrument of the catalog, with and without a
\* default action
HintStrategies ==
    LET plain == {ConfiguredStrategy(ConfigConstants, << >>, << RuleHinted(st, n) >>) :
                      st \in {3, 0 - 8}, n \in {"3D_10PCT", "7D_10PCT"}}
    IN  plain \cup {WithDefault(s, a) : s \in plain, a \in DefaultActions}

\* rows on which the rule fires or not, with a volatility (and so an expected move) below
\* and above the thresholds of the selection
HintRows == [close : {1000, 1100}, atr_value : {20, 90}]

HintFrames == UNION {[1..n -> HintRows] : n \in 1..MaxRows}

\* the executor is constructed with a strategy; generate_signals is called on a frame
InitConfig ==
    /\ engine = "config"
    /\ executor = "PortfolioAware"
    /\ dsl \in ConfigStrategies
    /\ df \in ConfigFrames
    /\ idx = 0
    /\ signals = << >>
    /\ run_no = 1
    /\ first_output = << >>
    /\ IdleServices
    /\ config = ConfigTight
    /\ capital_eth = 0
    /\ peak_capital = 0
    /\ in_drawdown = FALSE
    /\ positions = << >>
    /\ completed_trades = << >>
    /\ daily_premium_spent = << >>
    /\ is_trading_enabled = TRUE
    /\ active_positions = << >>
    /\ trade_logs = << >>
    /\ pc = "indicators"
    /\ bar_idx = 0
    /\ current_time = 0
    /\ current_price = 0
    /\ signals_seen = 0
    /\ trade = NoTrade
    /\ pnl_result = NoResult
    /\ last_event = "init"

\* generate_signals: df_with_indicators = self._calculate_indicators(df)
CalculateIndicators ==
    /\ engine = "config"
    /\ pc = "indicators"
    /\ ~calculate_indicators_raises(dsl)
    /\ df' = calculate_indicators(dsl, df)
    /\ pc' = "generating"
    /\ last_event' = "indicators"
    /\ UNCHANGED << engine, pnl_vars, executor, dsl, idx, signals, replay_vars, service_vars, config,
                    capital_eth, peak_capital, corrected_vars, manager_vars, bar_idx,
                    current_time, current_price, signals_seen >>

\* generate_signals: _calculate_indicators raises ValueError
CalculateIndicatorsRaises ==
    /\ engine = "config"
    /\ pc = "indicators"
    /\ calculate_indicators_raises(dsl)
    /\ pc' = "raised"
    /\ last_event' = "ValueError"
    /\ UNCHANGED << engine, pnl_vars, dsl_vars, replay_vars, service_vars, config, capital_eth,
                    peak_capital, corrected_vars, manager_vars, bar_idx, current_time,
                    current_price, signals_seen >>

\* generate_signals: one turn of the loop over the rows that appends a signal
ConfigGenerateRow ==
    /\ engine = "config"
    /\ pc = "generating"
    /\ idx < Len(df)
    /\ ~rule_outcome(dsl, df, idx + 1, 1).raised
    /\ idx' = idx + 1
    /\ signals' = Append(signals,
                         configured_signal(dsl, df, idx + 1, rule_outcome(dsl, df, idx + 1, 1).rule))
    /\ last_event' = "signal"
    /\ UNCHANGED << engine, pnl_vars, executor, dsl, df, replay_vars, service_vars, config, capital_eth,
                    peak_capital, corrected_vars, manager_vars, loop_vars >>

\* generate_signals: a turn of the loop raises ValueError; the signals built so far are
\* lost with the call
ConfigRowRaises ==
    /\ engine = "config"
    /\ pc = "generating"
    /\ idx < Len(df)
    /\ rule_outcome(dsl, df, idx + 1, 1).raised
    /\ signals' = << >>
    /\ pc' = "raised"
    /\ last_event' = "ValueError"
    /\ UNCHANGED << engine, pnl_vars, executor, dsl, df, idx, replay_vars, service_vars, config, capital_eth,
                    peak_capital, corrected_vars, manager_vars, bar_idx, current_time,
                    current_price, signals_seen >>

\* generate_signals: return signals
ConfigReturn ==
    /\ engine = "config"
    /\ pc = "generating"
    /\ idx = Len(df)
    /\ pc' = "done"
    /\ last_event' = "returned"
    /\ UNCHANGED << engine, pnl_vars, dsl_vars, replay_vars, service_vars, config, capital_eth,
                    peak_capital, corrected_vars, manager_vars, bar_idx, current_time,
                    current_price, signals_seen >>

NextConfig ==
    \/ CalculateIndicators
    \/ CalculateIndicatorsRaises
    \/ ConfigGenerateRow
    \/ ConfigRowRaises
    \/ ConfigReturn

SpecConfig == InitConfig /\ [][NextConfig]_vars

\* the executor is constructed with a strategy whose rule names its instrument
InitHints ==
    /\ engine = "config"
    /\ executor = "PortfolioAware"
    /\ dsl \in HintStrategies
    /\ df \in HintFrames
    /\ idx = 0
    /\ signals = << >>
    /\ run_no = 1
    /\ first_output = << >>
    /\ IdleServices
    /\ config = ConfigTight
    /\ capital_eth = 0
    /\ peak_capital = 0
    /\ in_drawdown = FALSE
    /\ positions = << >>
    /\ completed_trades = << >>
    /\ daily_premium_spent = << >>
    /\ is_trading_enabled = TRUE
    /\ active_positions = << >>
    /\ trade_logs = << >>
    /\ pc = "indicators"
    /\ bar_idx = 0
    /\ current_time = 0
    /\ current_price = 0
    /\ signals_seen = 0
    /\ trade = NoTrade
    /\ pnl_result = NoResult
    /\ last_event = "init"

\* generate_signals over the strategies of both kinds
SpecHints == (InitHints \/ InitConfig) /\ [][NextConfig]_vars

-----------------------------------------------------------------------------
(* portfolio_corrected_options.py: what CorrectedPortfolioBacktester.run_backtest    *)
(* does with the frame ohlcv_df of its caller (the list of signals is empty)         *)

\* a timestamp as a string, a pandas Timestamp, and a position of a RangeIndex
StrTime(t) == [kind |-> "str", t |-> t]
Timestamp(t) == [kind |-> "Timestamp", t |-> t]
Position(i) == [kind |-> "int", t |-> i]

\* pd.to_datetime of one value
to_datetime(v) == Timestamp(v.t)

\* how the caller holds the timestamps: in a column of strings, in a column of
\* Timestamps, or in the index
FrameLayouts == {"column_str", "column_datetime", "index"}

\* the frame of the caller with the closes cs, one row a day
OhlcvFrame(layout, cs) ==
    IF layout = "index"
        THEN [columns |-> {"close"},
              index |-> [i \in 1..Len(cs) |-> Timestamp((i - 1) * TicksPerDay)],
              data |-> [i \in 1..Len(cs) |-> [close |-> cs[i]]]]
        ELSE [columns |-> {"timestamp", "close"},
              index |-> [i \in 1..Len(cs) |-> Position(i - 1)],
              data |-> [i \in 1..Len(cs) |->
                          [timestamp |-> IF layout = "column_str"
                                            THEN StrTime((i - 1) * TicksPerDay)
                                            ELSE Timestamp((i - 1) * TicksPerDay),
                           close |-> cs[i]]]]

OhlcvFrames ==
    {OhlcvFrame(layout, cs) : layout \in FrameLayouts,
                              cs \in UNION {[1..n -> Prices] : n \in 0..(MaxRows + 1)}}

\* ohlcv_df['timestamp'] = pd.to_datetime(ohlcv_df['timestamp']) followed by
\* ohlcv_df.set_index('timestamp', inplace=True), on the frame object itself
timestamp_as_index(frame) ==
    [columns |-> frame.columns \ {"timestamp"},
     index |-> [i \in 1..Len(frame.data) |-> to_datetime(frame.data[i].timestamp)],
     data |-> [i \in 1..Len(frame.data) |->
                 [c \in (DOMAIN frame.data[i]) \ {"timestamp"} |-> frame.data[i][c]]]]

\* the backtester is constructed; the caller holds its frame
InitFrame ==
    /\ engine = "frame"
    /\ config \in Configs
    /\ capital_eth = config.initial_capital_eth
    /\ peak_capital = config.initial_capital_eth
    /\ in_drawdown = FALSE
    /\ positions = << >>
    /\ completed_trades = << >>
    /\ daily_premium_spent = << >>
    /\ is_trading_enabled = TRUE
    /\ active_positions = << >>
    /\ trade_logs = << >>
    /\ pc = "called"
    /\ bar_idx = 0
    /\ current_time = 0
    /\ current_price = 0
    /\ signals_seen = 0
    /\ trade = NoTrade
    /\ pnl_result = NoResult
    /\ last_event = "init"
    /\ executor = "none"
    /\ dsl = NoStrategy
    /\ df \in OhlcvFrames
    /\ idx = 0
    /\ signals = << >>
    /\ run_no = 1
    /\ first_output = << >>
    /\ IdleServices

\* run_backtest: 'timestamp' in ohlcv_df.columns
FrameSetIndex ==
    /\ engine = "frame"
    /\ pc = "called"
    /\ "timestamp" \in df.columns
    /\ df' = timestamp_as_index(df)
    /\ pc' = "rows"
    /\ last_event' = "set_index"
    /\ UNCHANGED << engine, pnl_vars, executor, dsl, idx, signals, replay_vars, service_vars, config,
                    capital_eth, peak_capital, corrected_vars, manager_vars, bar_idx,
                    current_time, current_price, signals_seen >>

\* run_backtest: the frame has no column timestamp
FrameKeepIndex ==
    /\ engine = "frame"
    /\ pc = "called"
    /\ "timestamp" \notin df.columns
    /\ pc' = "rows"
    /\ last_event' = "index_kept"
    /\ UNCHANGED << engine, pnl_vars, dsl_vars, replay_vars, service_vars, config, capital_eth,
                    peak_capital, corrected_vars, manager_vars, bar_idx, current_time,
                    current_price, signals_seen >>

\* run_backtest: one turn of for timestamp, row in ohlcv_df.iterrows(); without
\* positions and signals it reads the row and changes nothing else
FrameRow ==
    /\ engine = "frame"
    /\ pc = "rows"
    /\ bar_idx < Len(df.data)
    /\ bar_idx' = bar_idx + 1
    /\ current_time' = df.index[bar_idx + 1].t
    /\ current_price' = df.data[bar_idx + 1].close
    /\ last_event' = "row"
    /\ UNCHANGED << engine, pnl_vars, dsl_vars, replay_vars, service_vars, config, capital_eth,
                    peak_capital, corrected_vars, manager_vars, pc, signals_seen >>

\* run_backtest: _close_all_positions at the last row and return
FrameReturn ==
    /\ engine = "frame"
    /\ pc = "rows"
    /\ bar_idx = Len(df.data)
    /\ pc' = "done"
    /\ last_event' = "returned"
    /\ UNCHANGED << engine, pnl_vars, dsl_vars, replay_vars, service_vars, config, capital_eth,
                    peak_capital, corrected_vars, manager_vars, bar_idx, current_time,
                    current_price, signals_seen >>

\* test_dataset after the run: df['timestamp'].max() - df['timestamp'].min()
ReadTimestampColumn ==
    /\ engine = "frame"
    /\ pc = "done"
    /\ pc' = "read"
    /\ last_event' = IF "timestamp" \in df.columns THEN "period_days" ELSE "KeyError"
    /\ UNCHANGED << engine, pnl_vars, dsl_vars, replay_vars, service_vars, config, capital_eth,
                    peak_capital, corrected_vars, manager_vars, bar_idx, current_time,
                    current_price, signals_seen >>

NextFrame ==
    \/ FrameSetIndex
    \/ FrameKeepIndex
    \/ FrameRow
    \/ FrameReturn
    \/ ReadTimestampColumn

SpecFrame == InitFrame /\ [][NextFrame]_vars


-----------------------------------------------------------------------------
(* TechnicalIndicators: the pandas columns of the backtesters, the deque      *)
(* functions of the live service, and the list helper calculate_rsi.          *)
(* Prices are integers (hundredths), RSI is in hundredths of a percent, and   *)
(* a quotient is rounded to the nearest integer where the code keeps a float. *)

RECURSIVE SumSeq(_, _, _)
\* the sum of series[from..to]
SumSeq(series, from, to) ==
    IF from > to THEN 0 ELSE series[from] + SumSeq(series, from + 1, to)

\* the column close of a frame
Close(frame) == [k \in 1..Len(frame) |-> frame[k].close]

RECURSIVE ewm(_, _, _)
\* series.ewm(span=span, adjust=False).mean() at row i: the first row is the first value,
\* then y = (1 - alpha) * y_prev + alpha * x with alpha = 2 / (span + 1)
ewm(series, span, i) ==
    IF i = 1 THEN series[1]
    ELSE RDiv((span - 1) * ewm(series, span, i - 1) + 2 * series[i], span + 1)

\* TechnicalIndicators.ema at row i
ema(frame, period, i) == ewm(Close(frame), period, i)

\* delta = series.diff(): no value at the first row
delta(series, j) == IF j = 1 THEN NaN ELSE series[j] - series[j - 1]

\* delta.where(delta > 0, 0): the first row, where delta > 0 is False, becomes 0
gain(series, j) == IF j > 1 /\ series[j] - series[j - 1] > 0 THEN series[j] - series[j - 1] ELSE 0

\* -delta.where(delta < 0, 0)
loss(series, j) == IF j > 1 /\ series[j] - series[j - 1] < 0 THEN series[j - 1] - series[j] ELSE 0

\* the columns gain and loss of the first n rows
Gains(series, n) == [j \in 1..n |-> gain(series, j)]
Losses(series, n) == [j \in 1..n |-> loss(series, j)]

\* 100 - 100 / (1 + loss / gain), the two sums exchanged
rsi_value_inverted(sum_gain, sum_loss) ==
    IF sum_gain = 0 /\ sum_loss = 0 THEN NaN
    ELSE RDiv(10000 * sum_loss, sum_gain + sum_loss)

\* rs = gain / loss; 100 - (100 / (1 + rs)) in float arithmetic: 0 / 0 is nan, x / 0 is inf
\* and gives 100, otherwise 100 * gain / (gain + loss); the window length cancels
rsi_value(sum_gain, sum_loss) ==
    IF sum_gain = 0 /\ sum_loss = 0 THEN NaN
    ELSE RDiv(10000 * sum_gain, sum_gain + sum_loss)

\* TechnicalIndicators.rsi at row i: rolling(window=period).mean() of gain and of loss has
\* no value for the first period - 1 rows
rsi(frame, period, i) ==
    IF i < period THEN NaN
    ELSE rsi_value(SumSeq(Gains(Close(frame), i), i - period + 1, i),
                   SumSeq(Losses(Close(frame), i), i - period + 1, i))

\* macd_line = ema_fast - ema_slow, for the first n rows
macd_line(frame, fast, slow, n) ==
    [k \in 1..n |-> ewm(Close(frame), fast, k) - ewm(Close(frame), slow, k)]

\* TechnicalIndicators.macd at row i: line, signal line and histogram
macd(frame, fast, slow, signal, i) ==
    LET line == macd_line(frame, fast, slow, i)
        signal_line == ewm(line, signal, i)
    IN  [macd |-> line[i], signal |-> signal_line, histogram |-> line[i] - signal_line]

\* the row maximum of high - low, |high - close.shift()| and |low - close.shift()|; max skips
\* the two that have no value at the first row
true_range(frame, j) ==
    IF j = 1 THEN frame[1].high - frame[1].low
    ELSE Max(frame[j].high - frame[j].low,
             Max(Abs(frame[j].high - frame[j - 1].close), Abs(frame[j].low - frame[j - 1].close)))

\* TechnicalIndicators.atr at row i
atr(frame, period, i) ==
    IF i < period THEN NaN
    ELSE RDiv(SumSeq([j \in 1..i |-> true_range(frame, j)], i - period + 1, i), period)

\* the indicator columns of row i
pandas_row(frame, params, i) ==
    LET m == macd(frame, params.fast, params.slow, params.signal, i)
    IN  [sma |-> sma(frame, params.period, i), ema |-> ema(frame, params.period, i),
         rsi |-> rsi(frame, params.period, i), atr |-> atr(frame, params.period, i),
         macd |-> m.macd, macd_signal |-> m.signal, macd_hist |-> m.histogram]

\* api TechnicalIndicators.sma on a history of prices
deque_sma(prices, period) ==
    IF Len(prices) < period THEN NaN
    ELSE RDiv(SumSeq(prices, Len(prices) - period + 1, Len(prices)), period)

\* api TechnicalIndicators.rsi: 50.0 with fewer than period + 1 prices, 100.0 when the average
\* loss of the last period changes is 0
deque_rsi(prices, period) ==
    LET n == Len(prices)
        sum_gain == SumSeq(Gains(prices, n), n - period + 1, n)
        sum_loss == SumSeq(Losses(prices, n), n - period + 1, n)
    IN  IF n < period + 1 THEN 5000
        ELSE IF sum_loss = 0 THEN 10000
        ELSE RDiv(10000 * sum_gain, sum_gain + sum_loss)

\* api TechnicalIndicators.macd: zeros with fewer than slow prices, then the difference of
\* two plain means, with the signal line equal to the line
deque_macd(prices, fast, slow) ==
    LET n == Len(prices)
        line == RDiv(SumSeq(prices, n - fast + 1, n), fast) - RDiv(SumSeq(prices, n - slow + 1, n), slow)
    IN  IF n < slow THEN [macd |-> 0, signal |-> 0, histogram |-> 0]
        ELSE [macd |-> line, signal |-> line, histogram |-> 0]

\* the values the live service computes after a price was appended to its history
deque_row(prices, params) ==
    LET m == deque_macd(prices, params.fast, params.slow)
    IN  [sma |-> deque_sma(prices, params.period), rsi |-> deque_rsi(prices, params.period),
         macd |-> m.macd, macd_signal |-> m.signal, macd_hist |-> m.histogram]

RECURSIVE Pow(_, _)
Pow(b, e) == IF e = 0 THEN 1 ELSE b * Pow(b, e - 1)

RECURSIVE smoothed(_, _, _)
\* calculate_rsi: the average over the first period changes, then
\* (avg * (period - 1) + change) / period; the value after t further changes is kept as
\* the numerator over period^(t + 1)
smoothed(changes, period, i) ==
    IF i = period THEN SumSeq(changes, 1, period)
    ELSE smoothed(changes, period, i - 1) * (period - 1) + changes[i] * Pow(period, i - period)

\* calculate_rsi, one value: 100 when avg_loss == 0, else 100 - 100 / (1 + rs)
list_rsi_value(avg_gain, avg_loss) ==
    IF avg_loss = 0 THEN 10000 ELSE RDiv(10000 * avg_gain, avg_gain + avg_loss)

\* calculate_rsi(prices, period): all None with fewer than period + 1 prices; else a None,
\* the values for the changes period .. len - 1, and None up to the length of prices
calculate_rsi(prices, period) ==
    LET n == Len(prices)
        gains == [j \in 1..(n - 1) |-> gain(prices, j + 1)]
        losses == [j \in 1..(n - 1) |-> loss(prices, j + 1)]
    IN  [k \in 1..n |->
            IF n < period + 1 \/ k = 1 \/ k > n - period + 1 THEN NaN
            ELSE list_rsi_value(smoothed(gains, period, period + k - 2),
                                smoothed(losses, period, period + k - 2))]

IndicatorCloses == {1000, 1100, 1200, 1300}

\* bars whose high and low are half a unit from the close
IndicatorBars == {[high |-> c + 50, low |-> c - 50, close |-> c] : c \in IndicatorCloses}

\* the series of 0 .. MaxRows + 2 bars
IndicatorFrames == UNION {[1..n -> IndicatorBars] : n \in 0..(MaxRows + 2)}

\* period of sma, ema, rsi and atr; the three windows of macd
IndicatorParams == {[period |-> p, fast |-> 2, slow |-> 3, signal |-> 2] : p \in 1..3}

Implementations == {"pandas", "deque", "list"}

InitIndicators ==
    /\ engine = "indicators"
    /\ config \in Configs
    /\ capital_eth = config.initial_capital_eth
    /\ peak_capital = config.initial_capital_eth
    /\ in_drawdown = FALSE
    /\ positions = << >>
    /\ completed_trades = << >>
    /\ daily_premium_spent = << >>
    /\ is_trading_enabled = TRUE
    /\ active_positions = << >>
    /\ trade_logs = << >>
    /\ pc = "rows"
    /\ bar_idx = 0
    /\ current_time = 0
    /\ current_price = 0
    /\ signals_seen = 0
    /\ trade = NoTrade
    /\ pnl_result = NoResult
    /\ last_event = "init"
    /\ executor \in Implementations
    /\ dsl \in IndicatorParams
    /\ df \in IndicatorFrames
    /\ idx = 0
    /\ signals = << >>
    /\ run_no = 1
    /\ first_output = << >>
    /\ IdleServices

\* the pandas columns, one row at a time
PandasRow ==
    /\ engine = "indicators"
    /\ executor = "pandas"
    /\ pc = "rows"
    /\ idx < Len(df)
    /\ idx' = idx + 1
    /\ signals' = Append(signals, pandas_row(df, dsl, idx + 1))
    /\ last_event' = "row"
    /\ UNCHANGED << engine, pnl_vars, executor, dsl, df, replay_vars, service_vars, config, capital_eth,
                    peak_capital, corrected_vars, manager_vars, pc, bar_idx, current_time,
                    current_price, signals_seen >>

\* the live service: a price is appended to the history and the functions are called on it
DequeRow ==
    /\ engine = "indicators"
    /\ executor = "deque"
    /\ pc = "rows"
    /\ idx < Len(df)
    /\ idx' = idx + 1
    /\ signals' = Append(signals, deque_row(SubSeq(Close(df), 1, idx + 1), dsl))
    /\ last_event' = "row"
    /\ UNCHANGED << engine, pnl_vars, executor, dsl, df, replay_vars, service_vars, config, capital_eth,
                    peak_capital, corrected_vars, manager_vars, pc, bar_idx, current_time,
                    current_price, signals_seen >>

\* the last row was computed
IndicatorsReturn ==
    /\ engine = "indicators"
    /\ executor \in {"pandas", "deque"}
    /\ pc = "rows"
    /\ idx = Len(df)
    /\ pc' = "done"
    /\ last_event' = "return"
    /\ UNCHANGED << engine, pnl_vars, dsl_vars, replay_vars, service_vars, config, capital_eth, peak_capital,
                    corrected_vars, manager_vars, bar_idx, current_time, current_price,
                    signals_seen >>

\* calculate_rsi(prices, period) returns its list
CalculateRsi ==
    /\ engine = "indicators"
    /\ executor = "list"
    /\ pc = "rows"
    /\ idx' = Len(df)
    /\ signals' = [k \in 1..Len(df) |-> [rsi |-> calculate_rsi(Close(df), dsl.period)[k]]]
    /\ pc' = "done"
    /\ last_event' = "return"
    /\ UNCHANGED << engine, pnl_vars, executor, dsl, df, replay_vars, service_vars, config, capital_eth,
                    peak_capital, corrected_vars, manager_vars, bar_idx, current_time,
                    current_price, signals_seen >>

NextIndicators ==
    \/ PandasRow
    \/ DequeRow
    \/ IndicatorsReturn
    \/ CalculateRsi

\* the indicator computations over every series of the bounds
SpecIndicators == InitIndicators /\ [][NextIndicators]_vars


-----------------------------------------------------------------------------
(* ParameterOptimizer.optimize_strategy and EnhancedOptimizer.optimize_strategy. *)
(* A combination stands for the statistics its backtest yields (whole percents,  *)
(* Sharpe ratio as an integer); fitness is in thousandths.                        *)

\* min(max(x, 0), 1) in thousandths
Clamp(x) == Min(Max(x, 0), 1000)

\* _calculate_fitness: 0.15 below the APR threshold, 0.25 below the win-rate threshold,
\* otherwise the weighted sum of the normalised components, capped at 1.0
calculate_fitness(optimizer, stats) ==
    LET min_apr == IF optimizer = "EnhancedOptimizer" THEN 0 - 5 ELSE 0
        min_win_rate == IF optimizer = "EnhancedOptimizer" THEN 35 ELSE 40
        norm_apr == Clamp((stats.apr + 50) * 10)
        norm_win_rate == Min(stats.win_rate_pct * 10, 1000)
        norm_sharpe == Clamp((stats.sharpe_ratio + 2) * 250)
        drawdown_score == Max(1000 - stats.max_drawdown_pct * 20, 0)
    IN  IF stats.apr < min_apr THEN 150
        ELSE IF stats.win_rate_pct < min_win_rate THEN 250
        ELSE Min(RDiv(norm_apr * 4 + norm_win_rate * 3 + norm_sharpe * 2 + drawdown_score, 10),
                 1000)

\* the comparison with a tie taken as an improvement
is_best_or_equal(fitness_score, best) == fitness_score >= best

\* evaluation['fitness_score'] > best_fitness
is_best(fitness_score, best) == fitness_score > best

\* best_fitness >= 0.6
target_achieved(best) == best >= 600

\* the entry appended to optimization_history
history_entry(i, stats, fitness_score) ==
    [iteration |-> i, params |-> stats, fitness |-> fitness_score]

\* the best_result built from combination i
result_of(i, stats, fitness_score) ==
    [iteration |-> i, parameters |-> stats, evaluation |-> fitness_score]

\* statistics of backtests: a loss, a low win rate, two middling results that tie, a result
\* between the two APR thresholds, and two results that reach the target
BacktestStatistics ==
    {[apr |-> 0 - 10, win_rate_pct |-> 50,  sharpe_ratio |-> 0, max_drawdown_pct |-> 20],
     [apr |-> 5,      win_rate_pct |-> 37,  sharpe_ratio |-> 0, max_drawdown_pct |-> 10],
     [apr |-> 0,      win_rate_pct |-> 50,  sharpe_ratio |-> 0, max_drawdown_pct |-> 10],
     [apr |-> 0,      win_rate_pct |-> 50,  sharpe_ratio |-> 0, max_drawdown_pct |-> 20],
     [apr |-> 0 - 3,  win_rate_pct |-> 60,  sharpe_ratio |-> 0, max_drawdown_pct |-> 0],
     [apr |-> 30,     win_rate_pct |-> 60,  sharpe_ratio |-> 1, max_drawdown_pct |-> 10],
     [apr |-> 60,     win_rate_pct |-> 100, sharpe_ratio |-> 2, max_drawdown_pct |-> 0]}

\* the largest max_iterations of the exploration
MaxIterations == MaxRows + 1

Optimizers == {"ParameterOptimizer", "EnhancedOptimizer"}

\* optimize_strategy was called: _generate_param_combinations has shuffled the search space,
\* which is larger than max_iterations, and kept max_iterations combinations
InitOptimize ==
    /\ engine = "optimize"
    /\ config \in Configs
    /\ capital_eth = config.initial_capital_eth
    /\ peak_capital = config.initial_capital_eth
    /\ in_drawdown = FALSE
    /\ positions = << >>
    /\ completed_trades = << >>
    /\ daily_premium_spent = << >>
    /\ is_trading_enabled = TRUE
    /\ active_positions = << >>
    /\ trade_logs = << >>
    /\ pc = "sweep"
    /\ bar_idx = 0
    /\ current_time = 0
    /\ current_price = 0
    /\ signals_seen = 0
    /\ trade = NoTrade
    /\ pnl_result = NoResult
    /\ last_event = "init"
    /\ executor \in Optimizers
    /\ dsl = NoStrategy
    /\ df = << >>
    /\ idx = 0
    /\ signals = << >>
    /\ run_no = 1
    /\ first_output = << >>
    /\ max_iterations \in 0..MaxIterations
    /\ param_combinations \in [1..max_iterations -> BacktestStatistics]
    /\ best_fitness = 0
    /\ best_result = None
    /\ optimization_history = << >>
    /\ IdleLogs
    /\ IdleBroadcasts

\* one pass of the loop that does not return: strategy, executor, signals, evaluation,
\* history entry, and the update of the best result
EvaluateCombination ==
    /\ engine = "optimize"
    /\ pc = "sweep"
    /\ idx < Len(param_combinations)
    /\ LET params == param_combinations[idx + 1]
           fitness_score == calculate_fitness(executor, params)
       IN  /\ ~(is_best(fitness_score, best_fitness) /\ target_achieved(fitness_score))
           /\ optimization_history' =
                  Append(optimization_history, history_entry(idx + 1, params, fitness_score))
           /\ IF is_best(fitness_score, best_fitness)
                 THEN /\ best_fitness' = fitness_score
                      /\ best_result' = result_of(idx + 1, params, fitness_score)
                 ELSE UNCHANGED << best_fitness, best_result >>
    /\ idx' = idx + 1
    /\ last_event' = "evaluated"
    /\ UNCHANGED << engine, pnl_vars, executor, dsl, df, signals, replay_vars, config,
                    capital_eth, peak_capital, corrected_vars, manager_vars, loop_vars,
                    max_iterations, param_combinations, log_vars, broadcast_vars >>

\* the pass of the loop that finds a new best at or above the target and returns it
EvaluateAndReturn ==
    /\ engine = "optimize"
    /\ pc = "sweep"
    /\ idx < Len(param_combinations)
    /\ LET params == param_combinations[idx + 1]
           fitness_score == calculate_fitness(executor, params)
       IN  /\ is_best(fitness_score, best_fitness)
           /\ target_achieved(fitness_score)
           /\ optimization_history' =
                  Append(optimization_history, history_entry(idx + 1, params, fitness_score))
           /\ best_fitness' = fitness_score
           /\ best_result' = result_of(idx + 1, params, fitness_score)
    /\ idx' = idx + 1
    /\ pc' = "done"
    /\ last_event' = "target"
    /\ UNCHANGED << engine, pnl_vars, executor, dsl, df, signals, replay_vars, config,
                    capital_eth, peak_capital, corrected_vars, manager_vars, bar_idx,
                    current_time, current_price, signals_seen, max_iterations,
                    param_combinations, log_vars, broadcast_vars >>

\* every combination was evaluated: return best_result
OptimizeReturn ==
    /\ engine = "optimize"
    /\ pc = "sweep"
    /\ idx = Len(param_combinations)
    /\ pc' = "done"
    /\ last_event' = "complete"
    /\ UNCHANGED << engine, pnl_vars, dsl_vars, replay_vars, service_vars, config,
                    capital_eth, peak_capital, corrected_vars, manager_vars, bar_idx,
                    current_time, current_price, signals_seen >>

NextOptimize ==
    \/ EvaluateCombination
    \/ EvaluateAndReturn
    \/ OptimizeReturn

\* the parameter sweeps of both optimizers
SpecOptimize == InitOptimize /\ [][NextOptimize]_vars

-----------------------------------------------------------------------------
(* api/index.py: PersistentLogManager, called from the tasks SignalManager.add_log   *)
(* creates; a task runs until an await suspends it                                   *)

\* PersistentLogManager.__init__: self.batch_size
batch_size == 10

\* the tasks asyncio.create_task(_add_log_async()) created; task t logs the entry t
LogTasks == {1, 2}

\* shutdown_event, which awaits _flush_batch itself, as one more task
ShutdownTask == Cardinality(LogTasks) + 1

Flushers == LogTasks \cup {ShutdownTask}

\* entries added by earlier tasks and not flushed yet: none, or one less than a batch
PendingLogs == [k \in 1..(batch_size - 1) |-> 0 - k]

\* how often a log entry occurs in a list
Occurrences(entry, logs) == Cardinality({k \in 1..Len(logs) : logs[k] = entry})

\* no backtest, P&L computation, DSL executor or optimizer runs in the service
IdlePrograms ==
    /\ config = ConfigTight
    /\ capital_eth = 0
    /\ peak_capital = 0
    /\ in_drawdown = FALSE
    /\ positions = << >>
    /\ completed_trades = << >>
    /\ daily_premium_spent = << >>
    /\ is_trading_enabled = TRUE
    /\ active_positions = << >>
    /\ trade_logs = << >>
    /\ pc = "serving"
    /\ bar_idx = 0
    /\ current_time = 0
    /\ current_price = 0
    /\ signals_seen = 0
    /\ trade = NoTrade
    /\ pnl_result = NoResult
    /\ executor = "none"
    /\ dsl = NoStrategy
    /\ df = << >>
    /\ idx = 0
    /\ signals = << >>
    /\ run_no = 1
    /\ first_output = << >>
    /\ max_iterations = 0
    /\ param_combinations = << >>
    /\ best_fitness = 0
    /\ best_result = None
    /\ optimization_history = << >>

program_vars == << engine, pnl_vars, dsl_vars, replay_vars, optimizer_vars, config, capital_eth,
                   peak_capital, corrected_vars, manager_vars, loop_vars >>

log_program_vars == << program_vars, broadcast_vars >>

\* the service runs; the tasks are created and none has started
InitLogs ==
    /\ engine = "logs"
    /\ IdlePrograms
    /\ batch_logs \in {<< >>, PendingLogs}
    /\ memory_logs = batch_logs
    /\ database = << >>
    /\ elapsed = FALSE
    /\ log_pc = [t \in Flushers |-> "created"]
    /\ batch_data = [t \in Flushers |-> << >>]
    /\ IdleBroadcasts
    /\ last_event = "init"

\* _maybe_flush_batch: len(self.batch_logs) >= self.batch_size or time_since_last >= 30
flush_due(logs) == Len(logs) >= batch_size \/ elapsed

\* the clock passes last_batch_time + 30 seconds
ThirtySecondsPass ==
    /\ engine = "logs"
    /\ ~elapsed
    /\ elapsed' = TRUE
    /\ last_event' = "tick"
    /\ UNCHANGED << log_program_vars, memory_logs, batch_logs, database, log_pc, batch_data >>

\* add_log of task t up to its first suspension: the entry is appended to memory_logs and
\* to batch_logs; _maybe_flush_batch returns, or _flush_batch starts and awaits
\* aiosqlite.connect
AddLog(t) ==
    /\ engine = "logs"
    /\ t \in LogTasks
    /\ log_pc[t] = "created"
    /\ memory_logs' = Append(memory_logs, t)
    /\ batch_logs' = Append(batch_logs, t)
    /\ log_pc' = [log_pc EXCEPT ![t] = IF flush_due(batch_logs') THEN "connect" ELSE "returned"]
    /\ last_event' = "add_log"
    /\ UNCHANGED << log_program_vars, database, elapsed, batch_data >>

\* shutdown_event: await _flush_batch(), which returns at once on an empty batch
ShutdownFlush ==
    /\ engine = "logs"
    /\ log_pc[ShutdownTask] = "created"
    /\ log_pc' = [log_pc EXCEPT ![ShutdownTask] =
                      IF batch_logs = << >> THEN "returned" ELSE "connect"]
    /\ last_event' = "shutdown"
    /\ UNCHANGED << log_program_vars, memory_logs, batch_logs, database, elapsed, batch_data >>

\* _flush_batch: the connection is open; batch_data is built from self.batch_logs as it is
\* now, and the task awaits executemany
Connected(t) ==
    /\ engine = "logs"
    /\ t \in Flushers
    /\ log_pc[t] = "connect"
    /\ batch_data' = [batch_data EXCEPT ![t] = batch_logs]
    /\ log_pc' = [log_pc EXCEPT ![t] = "executemany"]
    /\ last_event' = "connected"
    /\ UNCHANGED << log_program_vars, memory_logs, batch_logs, database, elapsed >>

\* _flush_batch: executemany is done (the rows are in the open transaction); the task
\* awaits commit
Executed(t) ==
    /\ engine = "logs"
    /\ t \in Flushers
    /\ log_pc[t] = "executemany"
    /\ log_pc' = [log_pc EXCEPT ![t] = "commit"]
    /\ last_event' = "executed"
    /\ UNCHANGED << log_program_vars, memory_logs, batch_logs, database, elapsed, batch_data >>

\* _flush_batch: commit is done: the rows of batch_data are in the table; the task awaits
\* the exit of the connection
Committed(t) ==
    /\ engine = "logs"
    /\ t \in Flushers
    /\ log_pc[t] = "commit"
    /\ database' = database \o batch_data[t]
    /\ log_pc' = [log_pc EXCEPT ![t] = "close"]
    /\ last_event' = "committed"
    /\ UNCHANGED << log_program_vars, memory_logs, batch_logs, elapsed, batch_data >>

\* _flush_batch after the connection is closed: self.batch_logs.clear(),
\* self.last_batch_time = datetime.now(), then _cleanup_old_logs, which deletes nothing
\* while the table holds fewer than 1000 rows
ClearBatch(t) ==
    /\ engine = "logs"
    /\ t \in Flushers
    /\ log_pc[t] = "close"
    /\ batch_logs' = << >>
    /\ elapsed' = FALSE
    /\ log_pc' = [log_pc EXCEPT ![t] = "returned"]
    /\ last_event' = "cleared"
    /\ UNCHANGED << log_program_vars, memory_logs, database, batch_data >>

\* _flush_batch: connect, executemany or commit raises; the except clause logs the error,
\* nothing is written and self.batch_logs is left as it is
FlushRaises(t) ==
    /\ engine = "logs"
    /\ t \in Flushers
    /\ log_pc[t] \in {"connect", "executemany", "commit"}
    /\ log_pc' = [log_pc EXCEPT ![t] = "returned"]
    /\ last_event' = "flush_failed"
    /\ UNCHANGED << log_program_vars, memory_logs, batch_logs, database, elapsed, batch_data >>

NextLogs ==
    \/ ThirtySecondsPass
    \/ \E t \in LogTasks : AddLog(t)
    \/ ShutdownFlush
    \/ \E t \in Flushers : Connected(t)
    \/ \E t \in Flushers : Executed(t)
    \/ \E t \in Flushers : Committed(t)
    \/ \E t \in Flushers : ClearBatch(t)
    \/ \E t \in Flushers : FlushRaises(t)

\* the tasks of the service that log, in every interleaving of their awaits
SpecLogs == InitLogs /\ [][NextLogs]_vars

-----------------------------------------------------------------------------
(* api/index.py: SignalManager._broadcast, called from tasks that run while the      *)
(* handlers of the WebSocket endpoint disconnect their clients                       *)

\* the WebSockets accepted before the broadcasts start
Clients == {1, 2, 3}

\* the calls of _broadcast that are under way together
Broadcasts == {1, 2}

\* list.remove(x) on a list that holds x: the first occurrence goes
remove(list, x) ==
    LET first == CHOOSE k \in 1..Len(list) :
                     list[k] = x /\ \A j \in 1..(k - 1) : list[j] # x
    IN  [k \in 1..(Len(list) - 1) |-> IF k < first THEN list[k] ELSE list[k + 1]]

Holds(list, x) == \E k \in 1..Len(list) : list[k] = x

RECURSIVE remove_disconnected(_, _)
\* _broadcast: for connection in disconnected: self.active_connections.remove(connection);
\* the list it leaves, and whether a remove raised ValueError (the loop stops there)
remove_disconnected(list, disconnected) ==
    IF disconnected = << >> THEN [raised |-> FALSE, connections |-> list]
    ELSE IF ~Holds(list, Head(disconnected)) THEN [raised |-> TRUE, connections |-> list]
    ELSE remove_disconnected(remove(list, Head(disconnected)), Tail(disconnected))

\* a call of _broadcast that has not started
NotStarted == [pc |-> "created", index |-> 0, connection |-> 0, disconnected |-> << >>]

\* SignalManager with its clients connected; the calls of _broadcast are about to start
InitBroadcast ==
    /\ engine = "broadcast"
    /\ IdlePrograms
    /\ IdleLogs
    /\ active_connections \in {<< 1, 2 >>, << 1, 2, 3 >>}
    /\ open_sockets = {active_connections[k] : k \in 1..Len(active_connections)}
    /\ handled = {}
    /\ broadcasts = [b \in Broadcasts |-> NotStarted]
    /\ delivered = {}
    /\ last_event = "init"

broadcast_program_vars == << program_vars, log_vars >>

\* a client closes its WebSocket
ClientCloses(c) ==
    /\ engine = "broadcast"
    /\ c \in open_sockets
    /\ open_sockets' = open_sockets \ {c}
    /\ last_event' = "closed"
    /\ UNCHANGED << broadcast_program_vars, active_connections, handled, broadcasts, delivered >>

\* websocket_signals: receive_text raises WebSocketDisconnect; disconnect_websocket
DisconnectWebsocket(c) ==
    /\ engine = "broadcast"
    /\ c \in Clients \ open_sockets
    /\ c \notin handled
    /\ handled' = handled \cup {c}
    /\ active_connections' =
           IF Holds(active_connections, c) THEN remove(active_connections, c)
                                           ELSE active_connections
    /\ last_event' = "disconnect_websocket"
    /\ UNCHANGED << broadcast_program_vars, open_sockets, broadcasts, delivered >>

\* _broadcast up to its first suspension: it returns on an empty list, or takes the first
\* connection of the list and awaits send_text
BroadcastStart(b) ==
    /\ engine = "broadcast"
    /\ broadcasts[b].pc = "created"
    /\ broadcasts' =
           [broadcasts EXCEPT ![b] =
               IF active_connections = << >>
                   THEN [@ EXCEPT !.pc = "returned"]
                   ELSE [@ EXCEPT !.pc = "sending", !.index = 1,
                                  !.connection = active_connections[1]]]
    /\ last_event' = "broadcast"
    /\ UNCHANGED << broadcast_program_vars, active_connections, open_sockets, handled,
                    delivered >>

\* send_text of call b is over: it has delivered the message to an open socket, or raised
\* on a closed one and the connection is appended to disconnected
sent(b) ==
    LET call == broadcasts[b]
    IN  IF call.connection \in open_sockets THEN call
        ELSE [call EXCEPT !.disconnected = Append(@, call.connection)]

delivered_by(b) ==
    IF broadcasts[b].connection \in open_sockets
        THEN delivered \cup {<< b, broadcasts[b].connection >>}
        ELSE delivered

\* _broadcast: send_text returns or raises, the list iterator yields the element at its
\* index in the list as it is now, and the call awaits the next send_text
SendNext(b) ==
    /\ engine = "broadcast"
    /\ broadcasts[b].pc = "sending"
    /\ broadcasts[b].index < Len(active_connections)
    /\ delivered' = delivered_by(b)
    /\ broadcasts' =
           [broadcasts EXCEPT ![b] =
               [sent(b) EXCEPT !.index = @ + 1,
                               !.connection = active_connections[broadcasts[b].index + 1]]]
    /\ last_event' = "sent"
    /\ UNCHANGED << broadcast_program_vars, active_connections, open_sockets, handled >>

\* _broadcast: the last send_text returns or raises, the iterator is exhausted, the
\* disconnected clients are removed and the call returns
BroadcastReturns(b) ==
    /\ engine = "broadcast"
    /\ broadcasts[b].pc = "sending"
    /\ broadcasts[b].index >= Len(active_connections)
    /\ ~remove_disconnected(active_connections, sent(b).disconnected).raised
    /\ delivered' = delivered_by(b)
    /\ active_connections' =
           remove_disconnected(active_connections, sent(b).disconnected).connections
    /\ broadcasts' = [broadcasts EXCEPT ![b] = [sent(b) EXCEPT !.pc = "returned"]]
    /\ last_event' = "broadcast_returned"
    /\ UNCHANGED << broadcast_program_vars, open_sockets, handled >>

\* _broadcast: as above, but a connection of disconnected is no longer in the list:
\* self.active_connections.remove(connection) raises ValueError out of _broadcast
BroadcastRaises(b) ==
    /\ engine = "broadcast"
    /\ broadcasts[b].pc = "sending"
    /\ broadcasts[b].index >= Len(active_connections)
    /\ remove_disconnected(active_connections, sent(b).disconnected).raised
    /\ delivered' = delivered_by(b)
    /\ active_connections' =
           remove_disconnected(active_connections, sent(b).disconnected).connections
    /\ broadcasts' = [broadcasts EXCEPT ![b] = [sent(b) EXCEPT !.pc = "raised"]]
    /\ last_event' = "ValueError"
    /\ UNCHANGED << broadcast_program_vars, open_sockets, handled >>

NextBroadcast ==
    \/ \E c \in Clients : ClientCloses(c)
    \/ \E c \in Clients : DisconnectWebsocket(c)
    \/ \E b \in Broadcasts : BroadcastStart(b)
    \/ \E b \in Broadcasts : SendNext(b)
    \/ \E b \in Broadcasts : BroadcastReturns(b)
    \/ \E b \in Broadcasts : BroadcastRaises(b)

\* two broadcasts and the disconnections of the clients, in every interleaving
SpecBroadcast == InitBroadcast /\ [][NextBroadcast]_vars

-----------------------------------------------------------------------------
(* Properties *)

RECURSIVE SumPayouts(_)
\* sum of payout_eth over the trade logs of s (0 for a trade not yet closed)
SumPayouts(s) == IF s = << >> THEN 0 ELSE Head(s).payout_eth + SumPayouts(Tail(s))

ClosedTrades == {k \in 1..Len(completed_trades) : completed_trades[k].exit_time # NoTime}

ClosedLogs == {k \in 1..Len(trade_logs) : trade_logs[k].exit_time # NoTime}

\* C1: in CorrectedPortfolioBacktester, after every entry and every close, the premiums
\* of the open positions sum to at most max_total_premium_pct percent of capital_eth.
C1_BudgetInvariant ==
    engine = "corrected" =>
        current_premium_exposure * 100 <= config.max_total_premium_pct * capital_eth

C3_EntryAfterDisableNeedsRecovery ==
    [][(engine = "manager" /\ ~is_trading_enabled /\ Len(trade_logs') > Len(trade_logs))
          => capital_eth * 100 >= peak_capital * config.recovery_threshold_pct]_vars

\* C3 witness: open_position was refused because trading is disabled although the
\* drawdown is below max_drawdown_pct again: the capital has not recovered.
C3_RefusedBelowRecovery ==
    /\ engine = "manager"
    /\ last_event = "trading_disabled"
    /\ ~max_drawdown_reached
    /\ ~is_trading_enabled
    /\ capital_eth * 100 < peak_capital * config.recovery_threshold_pct

C5_CapInvariant ==
    /\ pnl_result.by # "none" =>
          LET cap == OPTION_INSTRUMENTS[trade.instrument].profit_cap_pct
          IN  /\ pnl_result.capped_move_pct = Min(Max(pnl_result.price_move_pct, 0), cap)
              /\ 0 <= pnl_result.capped_move_pct
              /\ pnl_result.capped_move_pct <= cap
              /\ pnl_result.payout_eth = BpOf(trade.nominal_eth, pnl_result.capped_move_pct)
              /\ pnl_result.payout_eth >= 0
    /\ \A k \in ClosedTrades :
          LET t == completed_trades[k]
              cap == OPTION_INSTRUMENTS[t.instrument_type].profit_cap_pct
          IN  /\ t.capped_move_pct = Min(Max(t.price_move_pct, 0), cap)
              /\ 0 <= t.capped_move_pct
              /\ t.capped_move_pct <= cap
              /\ t.payout_eth = BpOf(t.nominal_eth, t.capped_move_pct)
              /\ t.payout_eth >= 0

\* C5 witness: a position closed by the backtester after a move beyond its cap.
C5_ClosedAtCap ==
    \E k \in ClosedTrades :
        /\ completed_trades[k].price_move_pct > completed_trades[k].capped_move_pct
        /\ completed_trades[k].capped_move_pct > 0

\* C6: capital = initial capital - premiums of all positions opened so far
\* + payouts of all positions closed so far, at every point of a run.
C6_CapitalAccounting ==
    engine = "corrected" =>
        capital_eth = config.initial_capital_eth - SumPremiums(completed_trades)
                        + SumPayouts(completed_trades)

\* C6 witness: one position closed with a payout while another is open.
C6_PaidAndOpen ==
    /\ engine = "corrected"
    /\ positions # << >>
    /\ \E k \in ClosedTrades : completed_trades[k].payout_eth > 0

\* C7: -premium_paid <= net_pnl <= nominal exposure x profit_cap_pct / 100 - premium_paid
\* for every closed position: the loss never exceeds the premium.
C7_OnlyPremiumAtRisk ==
    /\ pnl_result.by # "none" =>
          LET cap == OPTION_INSTRUMENTS[trade.instrument].profit_cap_pct
          IN  /\ 0 - pnl_result.premium_paid_eth <= pnl_result.net_pnl_eth
              /\ pnl_result.net_pnl_eth <= BpOf(trade.nominal_eth, cap) - pnl_result.premium_paid_eth
    /\ \A k \in ClosedTrades :
          LET t == completed_trades[k]
              cap == OPTION_INSTRUMENTS[t.instrument_type].profit_cap_pct
          IN  /\ 0 - t.premium_paid_eth <= t.net_pnl_eth
              /\ t.net_pnl_eth <= BpOf(t.nominal_eth, cap) - t.premium_paid_eth
    /\ \A k \in ClosedLogs :
          LET t == trade_logs[k]
              cap == INSTRUMENTS[t.instrument_type].profit_cap_pct
          IN  /\ 0 - t.premium_cost_eth <= t.pnl_eth
              /\ t.pnl_eth <= BpOf(t.position_size_eth, cap) - t.premium_cost_eth

\* C7 witness: PortfolioManager closed a position after an adverse move; the whole
\* premium is lost and nothing more.
C7_PremiumLost ==
    \E k \in ClosedLogs :
        /\ trade_logs[k].pnl_eth = 0 - trade_logs[k].premium_cost_eth
        /\ trade_logs[k].premium_cost_eth > 0
        /\ IF trade_logs[k].signal_strength > 0
              THEN trade_logs[k].exit_price < trade_logs[k].entry_price
              ELSE trade_logs[k].exit_price > trade_logs[k].entry_price

\* the trade of Scenario A: a 7D_5PCT PUT on 1 ETH from 4472.60 to 4189.75
ScenarioA ==
    [nominal_eth |-> 10000, entry_price |-> 447260, exit_price |-> 418975,
     is_call |-> FALSE, instrument |-> "7D_5PCT"]

\* C8: price_move_pct is (exit - entry) / entry for a CALL and (entry - exit) / entry
\* for a PUT; win iff net_pnl = payout - premium_paid > 0, which for a premium of
\* nominal x premium_cost_pct / 100 holds iff capped_move_pct > premium_cost_pct;
\* Scenario A moves 6.32 percent, is capped at 5 percent and wins.
C8_MoveAndWin ==
    pnl_result.by # "none" =>
        LET pcp == OPTION_INSTRUMENTS[trade.instrument].premium_cost_pct
            diff == IF trade.is_call THEN trade.exit_price - trade.entry_price
                                       ELSE trade.entry_price - trade.exit_price
        IN  /\ pnl_result.price_move_pct = RDiv(diff * 10000, trade.entry_price)
            /\ pnl_result.net_pnl_eth = pnl_result.payout_eth - pnl_result.premium_paid_eth
            /\ pnl_result.win <=> pnl_result.net_pnl_eth > 0
            /\ pnl_result.premium_paid_eth = BpOf(trade.nominal_eth, pcp)
            /\ pnl_result.win <=> pnl_result.capped_move_pct > pcp
            /\ trade = ScenarioA =>
                  /\ pnl_result.price_move_pct = 632
                  /\ pnl_result.capped_move_pct = 500
                  /\ pnl_result.payout_eth = 500
                  /\ pnl_result.win

\* C8 witness: OptionPosition.calculate_pnl has computed Scenario A.
C8_ScenarioAComputed ==
    /\ trade = ScenarioA
    /\ pnl_result.by = "OptionPosition"
    /\ pnl_result.win

\* C9: in CorrectedPortfolioBacktester the premium spent within one calendar day never
\* exceeds max_daily_premium_pct percent of the capital at the time of the entry (the
\* capital before the entry's premium is deducted).
C9_DailyPremiumLimit ==
    (engine = "corrected" /\ last_event = "opened") =>
        daily_premium_spent[trade_date] * 100
            <= config.max_daily_premium_pct * completed_trades[Len(completed_trades)].capital_before

\* C10: when run_backtest returns on a non-empty series no position is open, every
\* trade log has an exit time, and the positions closed at the end of the data were
\* closed at the last bar's close price and time.
C10_AllClosedAtReturn ==
    (engine = "corrected" /\ pc = "done" /\ bar_idx > 0) =>
        /\ positions = << >>
        /\ \A k \in 1..Len(completed_trades) :
              LET t == completed_trades[k]
              IN  /\ t.exit_time # NoTime
                  /\ t.exit_reason \in {"expiry", "end_of_data"}
                  /\ t.exit_reason = "end_of_data" =>
                        (t.exit_price = current_price /\ t.exit_time = current_time)
                  /\ t.exit_reason = "expiry" =>
                        (t.exit_time <= current_time
                           /\ t.exit_time >= t.entry_time
                                 + OPTION_INSTRUMENTS[t.instrument_type].duration_days * TicksPerDay)

\* C10 witness: run_backtest has returned and one log was closed by expiry, another
\* at the end of the data.
C10_ReturnedAfterForcedClose ==
    /\ engine = "corrected"
    /\ pc = "done"
    /\ \E k \in 1..Len(completed_trades) : completed_trades[k].exit_reason = "end_of_data"
    /\ \E k \in 1..Len(completed_trades) : completed_trades[k].exit_reason = "expiry"


\* C11: when PortfolioBacktester.run_backtest returns, no position is left open and
\* every trade log of its output has an exit time.
C11_ManagerAllClosedAtReturn ==
    (engine = "manager" /\ pc = "done") =>
        /\ active_positions = << >>
        /\ \A k \in 1..Len(trade_logs) : trade_logs[k].exit_time # NoTime

RECURSIVE SumCredits(_)
\* what PortfolioManager.close_position has credited for the closed logs of s
SumCredits(s) ==
    IF s = << >> THEN 0
    ELSE (IF Head(s).exit_time # NoTime THEN Head(s).pnl_eth + Head(s).premium_cost_eth ELSE 0)
            + SumCredits(Tail(s))

RECURSIVE SumPremiumCosts(_)
SumPremiumCosts(s) ==
    IF s = << >> THEN 0 ELSE Head(s).premium_cost_eth + SumPremiumCosts(Tail(s))

\* the part of C12 that speaks of closes that happen: an open log has exactly one
\* active position and a closed log none, the payout is credited once, the exit reason
\* is expiry or end_of_data and an expiry close is not earlier than the expiry time.
C12_LifecycleSafety ==
    /\ engine = "corrected" =>
          /\ \A k \in 1..Len(completed_trades) :
                LET t == completed_trades[k]
                    held == {i \in 1..Len(positions) : positions[i].position_id = t.trade_id}
                IN  /\ Cardinality(held) = (IF t.exit_time = NoTime THEN 1 ELSE 0)
                    /\ t.exit_time # NoTime =>
                          /\ t.exit_reason \in {"expiry", "end_of_data"}
                          /\ t.exit_reason = "expiry" =>
                                t.exit_time >= t.entry_time
                                    + OPTION_INSTRUMENTS[t.instrument_type].duration_days * TicksPerDay
          /\ Len(positions) = Len(completed_trades) - Cardinality(ClosedTrades)
          /\ capital_eth = config.initial_capital_eth - SumPremiums(completed_trades)
                              + SumPayouts(completed_trades)
    /\ engine = "manager" =>
          /\ \A k \in 1..Len(trade_logs) :
                LET t == trade_logs[k]
                    held == {i \in 1..Len(active_positions) :
                                active_positions[i].trade_id = t.trade_id}
                IN  /\ Cardinality(held) = (IF t.exit_time = NoTime THEN 1 ELSE 0)
                    /\ t.exit_time # NoTime =>
                          /\ t.exit_reason \in {"expiry", "end_of_data"}
                          /\ t.exit_reason = "expiry" =>
                                t.exit_time >= t.entry_time
                                    + INSTRUMENTS[t.instrument_type].duration_days * TicksPerDay
          /\ Len(active_positions) = Len(trade_logs) - Cardinality(ClosedLogs)
          /\ capital_eth = config.initial_capital_eth - SumPremiumCosts(trade_logs)
                              + SumCredits(trade_logs)

\* C12: every opened position is closed exactly once, by expiry or by the end of the
\* data: when a run has returned every position opened in it has been closed, and the
\* closes that happen are single, credited once and not earlier than the expiry.
C12_ClosedExactlyOnce ==
    /\ C12_LifecycleSafety
    /\ (engine = "corrected" /\ pc = "done") =>
          \A k \in 1..Len(completed_trades) : completed_trades[k].exit_time # NoTime
    /\ (engine = "manager" /\ pc = "done") =>
          \A k \in 1..Len(trade_logs) : trade_logs[k].exit_time # NoTime

\* C13: once the expirations of a row are processed (at the drawdown check, at signal
\* intake and until the next row) no active position has reached its expiry, and a
\* position closed by expiry at the current row was closed at the row's close price.
C13_ExpirationsProcessedFirst ==
    /\ (engine = "corrected" /\ pc \in {"signals", "next_bar"}) =>
          \A i \in 1..Len(positions) : current_time < positions[i].expiry_time
    /\ (engine = "corrected" /\ last_event \in {"drawdown_ok", "drawdown_skip"}) =>
          \A i \in 1..Len(positions) : current_time < positions[i].expiry_time
    /\ (engine = "manager" /\ pc \in {"next_bar", "done"}) =>
          \A i \in 1..Len(active_positions) :
              current_time < active_positions[i].entry_time
                                + active_positions[i].duration_days * TicksPerDay
    /\ engine = "corrected" =>
          \A k \in ClosedTrades :
              (completed_trades[k].exit_reason = "expiry"
                  /\ completed_trades[k].exit_time = current_time)
                  => completed_trades[k].exit_price = current_price
    /\ engine = "manager" =>
          \A k \in ClosedLogs :
              trade_logs[k].exit_time = current_time => trade_logs[k].exit_price = current_price

\* C13 witness: PortfolioBacktester closed a position at the row whose time is exactly
\* entry time + duration_days.
C13_ClosedAtExpiryInstant ==
    /\ engine = "manager"
    /\ last_event = "closed_expiry"
    /\ \E k \in ClosedLogs :
          /\ trade_logs[k].exit_time = current_time
          /\ trade_logs[k].exit_time = trade_logs[k].entry_time
                + INSTRUMENTS[trade_logs[k].instrument_type].duration_days * TicksPerDay


\* the signal of row i comes from a rule, not from the default action
Fired(i) == signals[i].rule_triggered # "DEFAULT"

Defined(v) == v # NaN

\* the strategy has one rule, whose group is an AND of one condition
IsProbe ==
    /\ engine = "dsl"
    /\ Len(dsl.signal_rules) = 1
    /\ Upper(dsl.signal_rules[1].conditions_group.operator) = "AND"
    /\ Len(dsl.signal_rules[1].conditions_group.conditions) = 1

Probe == dsl.signal_rules[1].conditions_group.conditions[1]

\* the operands of the probe at row i
Operand1(i) == get_value(Probe.series1, df[i])
Operand2(i) == get_value(Probe.series2_or_value, df[i])

\* C14: generate_signals emits one signal per row, in row order: the action of the first
\* rule in declared order whose group is true at the row, else the default action with
\* rule_triggered DEFAULT.
C14_OneSignalPerRowFirstRuleWins ==
    engine = "dsl" =>
        /\ Len(signals) = idx
        /\ pc = "done" => Len(signals) = Len(df)
        /\ \A i \in 1..Len(signals) :
              LET rules == dsl.signal_rules
                  true_rules == {r \in 1..Len(rules) :
                                    evaluate_condition_group(executor, rules[r].conditions_group,
                                                             df, i)}
              IN  /\ signals[i].timestamp = i
                  /\ IF true_rules = {}
                        THEN /\ signals[i].rule_triggered = "DEFAULT"
                             /\ signals[i].signal =
                                   (IF dsl.has_default
                                       THEN dsl.default_action_on_no_match.strength ELSE 0)
                        ELSE LET first == CHOOSE r \in true_rules : \A q \in true_rules : r <= q
                             IN  /\ signals[i].rule_triggered = rules[first].rule_name
                                 /\ signals[i].signal = rules[first].action_on_true.strength

\* C14 witness: two rules are true at a row and the signal is the first one's.
C14_LaterRuleNotConsidered ==
    /\ engine = "dsl"
    /\ Len(dsl.signal_rules) >= 2
    /\ \E i \in 1..Len(signals) :
          /\ evaluate_condition_group(executor, dsl.signal_rules[1].conditions_group, df, i)
          /\ evaluate_condition_group(executor, dsl.signal_rules[2].conditions_group, df, i)
          /\ signals[i].rule_triggered = dsl.signal_rules[1].rule_name

\* C15: crosses_above(a, b) is true at a row iff the row is not the first, the previous
\* and the current values of both are defined, prev_a <= prev_b and a > b; crosses_below
\* is the mirror; both are false at the first row.
C15_Crossing ==
    (IsProbe /\ Lower(Probe.operator) \in {"crosses_above", "crosses_below"}) =>
        \A i \in 1..Len(signals) :
            Fired(i) <=>
                /\ i > 1
                /\ Defined(Operand1(i)) /\ Defined(Operand2(i))
                /\ Defined(Operand1(i - 1)) /\ Defined(Operand2(i - 1))
                /\ IF Lower(Probe.operator) = "crosses_above"
                      THEN Operand1(i - 1) <= Operand2(i - 1) /\ Operand1(i) > Operand2(i)
                      ELSE Operand1(i - 1) >= Operand2(i - 1) /\ Operand1(i) < Operand2(i)

\* C15 witness: a crosses_above rule fired at a row whose previous values were equal.
C15_CrossedFromEqual ==
    /\ IsProbe
    /\ Lower(Probe.operator) = "crosses_above"
    /\ \E i \in 2..Len(signals) :
          /\ Fired(i)
          /\ Operand1(i - 1) = Operand2(i - 1)

\* C16: a condition with an undefined operand (a value not available, a name that is
\* no column) is false for every operator, so a rule whose AND group holds such a
\* condition does not fire at that row.
C16_UndefinedOperandIsFalse ==
    (engine = "dsl" /\ Len(dsl.signal_rules) = 1
        /\ Upper(dsl.signal_rules[1].conditions_group.operator) = "AND") =>
        \A i \in 1..Len(signals) :
            (\E k \in 1..Len(dsl.signal_rules[1].conditions_group.conditions) :
                LET c == dsl.signal_rules[1].conditions_group.conditions[k]
                IN  \/ ~Defined(get_value(c.series1, df[i]))
                    \/ ~Defined(get_value(c.series2_or_value, df[i])))
                => ~Fired(i)

\* C16 witness: a != or is_not_between condition on a name that is no column was
\* evaluated at a row where the other operand is defined, and the rule did not fire.
C16_NotEqualOnMissingColumn ==
    /\ IsProbe
    /\ Lower(Probe.operator) \in {"!=", "is_not_between"}
    /\ Probe.series2_or_value = Col("nocol")
    /\ \E i \in 1..Len(signals) : Defined(Operand1(i)) /\ ~Fired(i)

\* C17: a group is true under AND iff it has conditions and all are true, under OR iff
\* at least one is true; an empty group or another operator is false.
C17_GroupCombination ==
    (engine = "dsl" /\ Len(dsl.signal_rules) = 1) =>
        \A i \in 1..Len(signals) :
            LET group == dsl.signal_rules[1].conditions_group
                n == Len(group.conditions)
                result(k) == evaluate_condition(executor, group.conditions[k], df, i)
            IN  Fired(i) <=>
                    \/ Upper(group.operator) = "AND" /\ n > 0 /\ \A k \in 1..n : result(k)
                    \/ Upper(group.operator) = "OR" /\ \E k \in 1..n : result(k)

\* C17 witness: an AND group without conditions was evaluated at a row.
C17_EmptyGroupEvaluated ==
    /\ engine = "dsl"
    /\ Len(dsl.signal_rules) = 1
    /\ Upper(dsl.signal_rules[1].conditions_group.operator) = "AND"
    /\ dsl.signal_rules[1].conditions_group.conditions = << >>
    /\ Len(signals) > 0

\* the bounds the claim names: the supplied one, else series2_or_value -/+ 10
StatedLower(i) ==
    IF Probe.has_lower THEN Probe.lower_bound
    ELSE IF Defined(Operand2(i)) THEN Operand2(i) - 10 ELSE NaN

StatedUpper(i) ==
    IF Probe.has_upper THEN Probe.upper_bound
    ELSE IF Defined(Operand2(i)) THEN Operand2(i) + 10 ELSE NaN

InStatedRange(i) ==
    /\ Defined(Operand1(i)) /\ Defined(StatedLower(i)) /\ Defined(StatedUpper(i))
    /\ StatedLower(i) <= Operand1(i)
    /\ Operand1(i) <= StatedUpper(i)

IsRangeProbe ==
    IsProbe /\ executor = "Advanced" /\ Probe.operator \in {"is_between", "is_not_between"}

\* C18 as stated: is_between is true iff lower <= series1 <= upper for the bounds
\* supplied (series2_or_value -/+ 10 for a bound that is not), is_not_between is its
\* negation when the operands are defined.
C18_BetweenAsStated ==
    IsRangeProbe =>
        \A i \in 1..Len(signals) :
            /\ Probe.operator = "is_between" => (Fired(i) <=> InStatedRange(i))
            /\ (Probe.operator = "is_not_between"
                   /\ Defined(Operand1(i)) /\ Defined(Operand2(i)))
                  => (Fired(i) <=> ~InStatedRange(i))

\* C18 amended: is_between is true iff series1 and series2_or_value are both defined
\* and lower <= series1 <= upper; is_not_between iff both are defined and series1 is
\* outside the range; a missing bound is series2_or_value -/+ 10.
C18_BetweenNeedsBothOperands ==
    IsRangeProbe =>
        \A i \in 1..Len(signals) :
            LET both == Defined(Operand1(i)) /\ Defined(Operand2(i))
            IN  /\ Probe.operator = "is_between" => (Fired(i) <=> (both /\ InStatedRange(i)))
                /\ Probe.operator = "is_not_between" =>
                      (Fired(i) <=> (both /\ ~InStatedRange(i)))

\* C18 witness: is_between with both bounds supplied, series1 within them,
\* series2_or_value undefined: the condition is false.
C18_InRangeWithoutSeries2 ==
    /\ IsRangeProbe
    /\ Probe.operator = "is_between"
    /\ Probe.has_lower /\ Probe.has_upper
    /\ \E i \in 1..Len(signals) :
          InStatedRange(i) /\ ~Defined(Operand2(i)) /\ ~Fired(i)

IsTrendProbe ==
    IsProbe /\ executor = "Advanced" /\ Lower(Probe.operator) \in {"is_rising", "is_falling"}

\* series1 moved in the probe's direction from row i - 1 to row i, both values defined
Moved(i) ==
    /\ i > 1
    /\ Defined(Operand1(i)) /\ Defined(Operand1(i - 1))
    /\ IF Lower(Probe.operator) = "is_rising"
          THEN Operand1(i) > Operand1(i - 1)
          ELSE Operand1(i) < Operand1(i - 1)

\* C19 as stated: is_rising (is_falling) is true at a row iff the row is not the first,
\* the current and the preceding value of series1 are defined and the current one is
\* strictly greater (smaller).
C19_TrendAsStated ==
    IsTrendProbe => \A i \in 1..Len(signals) : Fired(i) <=> Moved(i)

\* C19 amended: ... iff the row is not the first, the current and the preceding value
\* of series1 and the current value of series2_or_value are defined, and the current
\* value of series1 is strictly greater (smaller) than the preceding one.
C19_TrendNeedsSeries2 ==
    IsTrendProbe =>
        \A i \in 1..Len(signals) : Fired(i) <=> (Moved(i) /\ Defined(Operand2(i)))

\* C19 witness: series1 rose but series2_or_value is undefined: is_rising is false.
C19_RoseWithoutSeries2 ==
    /\ IsTrendProbe
    /\ Lower(Probe.operator) = "is_rising"
    /\ \E i \in 1..Len(signals) : Moved(i) /\ ~Defined(Operand2(i)) /\ ~Fired(i)

\* one log of the second run against the log of the same rank of the first run, the
\* trade id left out
same_but_trade_id(x, y) == [x EXCEPT !.trade_id = ""] = [y EXCEPT !.trade_id = ""]

\* C20: running the same strategy on the same price series twice, each time on a fresh
\* executor and a fresh backtester, returns the same trade logs: every field of every
\* record, trade_id included, is the same in both runs
C20_IdenticalOutput ==
    (engine = "replay" /\ pc = "done") => output_of(trade_logs) = first_output

\* no two records of logs carry the same trade id
distinct_ids(logs) ==
    \A j, k \in 1..Len(logs) : j # k => logs[j].trade_id # logs[k].trade_id

\* C20, apart from the ids: when no id was drawn twice within a run, the two runs return
\* the same number of records, and the records of the same rank agree in every field
\* other than trade_id
C20_IdenticalButTradeId ==
    (engine = "replay" /\ pc = "done" /\ distinct_ids(trade_logs) /\ distinct_ids(first_output)) =>
        /\ Len(trade_logs) = Len(first_output)
        /\ \A k \in 1..Len(trade_logs) :
              same_but_trade_id(to_dict(trade_logs[k]), first_output[k])

\* both runs have returned and each opened a position
C20_BothRunsTraded ==
    /\ engine = "replay"
    /\ pc = "done"
    /\ Len(first_output) > 0
    /\ Len(trade_logs) > 0

\* the rule and the row _select_instrument was applied to, and what it selected
SelectedRule == dsl.signal_rules[1]
SelectedRow == df[1]
SelectedType == signals[1].instrument_type

\* _select_instrument returned for a rule without an instrument hint
SelectedWithoutHint ==
    /\ engine = "select"
    /\ pc = "done"
    /\ ~SelectedRule.action_on_true.has_instrument_type

\* the volatility threshold the rule states: its own number, the constant it refers to,
\* or 3.0 when it states none
StatedVolThreshold ==
    IF ~SelectedRule.instrument_selection.has_volatility_threshold THEN 3
    ELSE IF SelectedRule.instrument_selection.volatility_threshold.is_str
        THEN dsl.constants.high_vol_threshold
        ELSE SelectedRule.instrument_selection.volatility_threshold.value

\* ATR / close x 100 is above the stated threshold (ATR is 50 when the row has none)
HighVolatility ==
    LET atr_value == IF "atr_value" \in DOMAIN SelectedRow THEN SelectedRow.atr_value ELSE 50
    IN  Defined(atr_value) /\ atr_value * 100 > StatedVolThreshold * SelectedRow.close

ExpectedMove == SelectedRow.expected_move_pct

\* C24: for a rule with |strength| >= 7 and no instrument hint, a 3-day instrument is
\* selected when the volatility is above the threshold, with the 10% cap if the expected
\* move exceeds 7 and the 5% cap otherwise; a 7-day instrument is selected whenever the
\* volatility is not above the threshold
C24_StrongSignalSelection ==
    (SelectedWithoutHint /\ Abs(SelectedRule.action_on_true.strength) >= 7) =>
        IF HighVolatility
            THEN SelectedType =
                    (IF Defined(ExpectedMove) /\ ExpectedMove > 7 THEN "3D_10PCT" ELSE "3D_5PCT")
            ELSE SelectedType \in {"7D_5PCT", "7D_10PCT"}

\* C24 witness: a strong signal under high volatility whose expected move is exactly at
\* the cut-off got the 5% cap
C24_StrongAtCutOff ==
    /\ SelectedWithoutHint
    /\ Abs(SelectedRule.action_on_true.strength) >= 7
    /\ HighVolatility
    /\ ExpectedMove = 7
    /\ SelectedType = "3D_5PCT"

\* C25: for a rule with |strength| < 7 and no instrument hint, 3D_5PCT is selected under
\* high volatility; under low volatility 7D_5PCT is selected if and only if the expected
\* move is at or above the expected-move threshold (5), and no 7-day instrument is
\* selected with a smaller expected move
C25_WeakSignalSelection ==
    (SelectedWithoutHint /\ Abs(SelectedRule.action_on_true.strength) < 7) =>
        IF HighVolatility
            THEN SelectedType = "3D_5PCT"
            ELSE /\ (SelectedType = "7D_5PCT") <=> (Defined(ExpectedMove) /\ ExpectedMove >= 5)
                 /\ (Defined(ExpectedMove) /\ ExpectedMove < 5) =>
                        SelectedType \notin {"7D_5PCT", "7D_10PCT"}

\* C26: the expected-move cut-off that _select_instrument applies is the strategy's
\* constant expected_move_threshold: for a strong signal under low volatility the 10% cap
\* is selected exactly when the expected move exceeds that constant
C26_CutOffFromConstants ==
    (SelectedWithoutHint /\ Abs(SelectedRule.action_on_true.strength) >= 7 /\ ~HighVolatility) =>
        ((SelectedType = "7D_10PCT") <=>
            (Defined(ExpectedMove) /\ ExpectedMove > dsl.constants.expected_move_threshold))

\* the strategy refers to a constant that is not defined: in an indicator parameter, in
\* an operand of a condition of a rule, or in the instrument threshold of a rule
MentionsUndefinedConstant ==
    \/ \E k \in 1..Len(dsl.indicators) : undefined_constant(dsl.constants, dsl.indicators[k].length)
    \/ \E r \in 1..Len(dsl.signal_rules) :
          \/ \E k \in 1..Len(dsl.signal_rules[r].conditions_group.conditions) :
                LET c == dsl.signal_rules[r].conditions_group.conditions[k]
                IN  \/ undefined_constant(dsl.constants, c.series1)
                    \/ undefined_constant(dsl.constants, c.series2_or_value)
          \/ /\ dsl.signal_rules[r].instrument_selection.has_volatility_threshold
             /\ undefined_constant(dsl.constants,
                                   dsl.signal_rules[r].instrument_selection.volatility_threshold)

\* C21: a strategy that refers to an undefined constant, wherever the reference occurs,
\* is fatal: generate_signals never returns signals for it, whatever the price series
C21_UndefinedConstantIsFatal ==
    (engine = "config" /\ MentionsUndefinedConstant) => pc # "done"

\* C21, the part about indicator parameters: with an undefined reference in an indicator
\* parameter generate_signals raises before any row is looked at
C21_UndefinedIndicatorParameterIsFatal ==
    (engine = "config"
        /\ \E k \in 1..Len(dsl.indicators) :
              undefined_constant(dsl.constants, dsl.indicators[k].length))
      => (pc \in {"indicators", "raised"} /\ signals = << >>)

\* C22: no signal is emitted for a rule whose action names an instrument type that is not
\* in the catalog, and signal generation does not get past an indicator specification
\* of unknown type
C22_UnknownNamesAbort ==
    engine = "config" =>
        /\ \A k \in 1..Len(signals) : \A r \in 1..Len(dsl.signal_rules) :
              (dsl.signal_rules[r].rule_name = signals[k].rule_triggered
                  /\ dsl.signal_rules[r].action_on_true.has_instrument_type)
                => dsl.signal_rules[r].action_on_true.instrument_type \in DOMAIN INSTRUMENTS
        /\ (\E k \in 1..Len(dsl.indicators) : dsl.indicators[k].type \notin IndicatorTypes)
              => pc \in {"indicators", "raised"}

\* C27: CorrectedPortfolioBacktester.run_backtest never changes the frame it is given:
\* no step of it changes the columns, the index or the values of ohlcv_df
C27_FrameNeverMutated ==
    [][engine = "frame" => df' = df]_vars

\* C27, for a frame whose timestamps are its index already: no step changes it, and the
\* caller can read it after the run
C27_IndexedFrameNeverMutated ==
    [][(engine = "frame" /\ "timestamp" \notin df.columns) => df' = df]_vars

\* the reasons for which _process_signal returns False
RejectionReasons ==
    {"max_positions", "no_budget", "unknown_instrument", "daily_limit", "below_minimum"}

\* C23: in CorrectedPortfolioBacktester a rejected signal (position cap reached, no
\* premium budget, unknown instrument, daily limit reached, size below the minimum)
\* leaves capital, peak capital, open positions, daily premium spend and trade logs
\* unchanged, and the run goes on with the remaining signals of the bar
C23_RejectionChangesNothing ==
    [][(engine = "corrected" /\ pc = "signals" /\ last_event' \in RejectionReasons) =>
          /\ capital_eth' = capital_eth
          /\ peak_capital' = peak_capital
          /\ positions' = positions
          /\ daily_premium_spent' = daily_premium_spent
          /\ completed_trades' = completed_trades
          /\ in_drawdown' = in_drawdown
          /\ pc' = "signals"]_vars

\* C23 witness: a signal was rejected for its size below the minimum while a position is
\* open and premium was spent, and the bar still takes signals
C23_RejectedBelowMinimum ==
    /\ engine = "corrected"
    /\ last_event = "below_minimum"
    /\ pc = "signals"
    /\ Len(positions) = 1
    /\ capital_eth < config.initial_capital_eth
    /\ signals_seen < MaxSignalsPerBar

\* the indicator values computed so far come from the pandas columns or the live service
ComputesIndicators == engine = "indicators" /\ executor \in {"pandas", "deque"}

\* C28: every indicator value at a row before its lookback window is filled is undefined and
\* never a number: SMA, RSI, ATR and EMA before period rows, the three MACD values before
\* slow rows
C28_UndefinedBeforeWindow ==
    ComputesIndicators =>
        \A k \in 1..Len(signals) :
            /\ k < dsl.period =>
                /\ signals[k].sma = NaN
                /\ signals[k].rsi = NaN
                /\ executor = "pandas" => (signals[k].atr = NaN /\ signals[k].ema = NaN)
            /\ k < dsl.slow =>
                /\ signals[k].macd = NaN
                /\ signals[k].macd_signal = NaN
                /\ signals[k].macd_hist = NaN

\* C28, the part for the rolling windows: SMA of both implementations and the pandas RSI and
\* ATR have no value before period rows
C28_RollingUndefinedBeforeWindow ==
    ComputesIndicators =>
        \A k \in 1..Len(signals) :
            k < dsl.period =>
                /\ signals[k].sma = NaN
                /\ executor = "pandas" => (signals[k].rsi = NaN /\ signals[k].atr = NaN)

\* the losses of the period changes that end at row k sum to 0
NoLossInWindow(k) ==
    SumSeq(Losses(Close(df), k), k - dsl.period + 1, k) = 0

\* C29: at a row that has period price changes behind it and whose average loss over them
\* is 0, RSI is 100, also when the price did not change in the window
C29_NoLossGivesHundred ==
    ComputesIndicators =>
        \A k \in 1..Len(signals) :
            (k >= dsl.period + 1 /\ NoLossInWindow(k)) => signals[k].rsi = 10000

\* C29, the part for a window with a gain: average loss 0 and average gain above 0
C29_GainWithoutLossGivesHundred ==
    ComputesIndicators =>
        \A k \in 1..Len(signals) :
            (/\ k >= dsl.period + 1
             /\ NoLossInWindow(k)
             /\ SumSeq(Gains(Close(df), k), k - dsl.period + 1, k) > 0) => signals[k].rsi = 10000

StrictlyIncreasing(series) == \A j \in 2..Len(series) : series[j - 1] < series[j]
StrictlyDecreasing(series) == \A j \in 2..Len(series) : series[j - 1] > series[j]

\* C30: in the pandas RSI and in calculate_rsi, every defined value is 100 on a strictly
\* increasing series and 0 on a strictly decreasing one, and every defined value of any
\* series is within [0, 100]
C30_RsiOnMonotonicSeries ==
    (engine = "indicators" /\ executor \in {"pandas", "list"}) =>
        \A k \in 1..Len(signals) :
            signals[k].rsi # NaN =>
                /\ signals[k].rsi >= 0
                /\ signals[k].rsi <= 10000
                /\ (Len(df) >= 2 /\ StrictlyIncreasing(Close(df))) => signals[k].rsi = 10000
                /\ (Len(df) >= 2 /\ StrictlyDecreasing(Close(df))) => signals[k].rsi = 0

\* C30 witness: the pandas RSI of period 2 was computed over a strictly increasing series of
\* three or more rows, and its last two values are 100
C30_HundredOnRisingSeries ==
    /\ engine = "indicators"
    /\ executor = "pandas"
    /\ pc = "done"
    /\ Len(df) >= 3
    /\ StrictlyIncreasing(Close(df))
    /\ dsl.period = 2
    /\ signals[Len(df)].rsi = 10000
    /\ signals[Len(df) - 1].rsi = 10000

\* the fitness values of the combinations evaluated so far
Evaluated == 1..Len(optimization_history)

\* C31: optimize_strategy evaluates the combinations one at a time in their order, at most
\* max_iterations of them; it returns at the first combination whose fitness is >= 0.6
\* and otherwise after all of them; what it returns is the evaluated combination with the
\* highest fitness, the earliest one on ties
C31_SweepReturnsEarliestBest ==
    engine = "optimize" =>
        /\ Len(optimization_history) = idx
        /\ idx <= max_iterations
        /\ \A k \in Evaluated : optimization_history[k].iteration = k
        /\ \A k \in Evaluated :
               optimization_history[k].fitness >= 600 => (k = idx /\ pc = "done")
        /\ pc = "done" =>
            /\ (\A k \in Evaluated : optimization_history[k].fitness < 600) =>
                   idx = Len(param_combinations)
            /\ idx > 0 =>
                /\ best_result.iteration \in Evaluated
                /\ best_result.evaluation = optimization_history[best_result.iteration].fitness
                /\ \A k \in Evaluated :
                       /\ optimization_history[k].fitness <= best_result.evaluation
                       /\ optimization_history[k].fitness = best_result.evaluation =>
                              best_result.iteration <= k

\* C31 witness: a sweep over three combinations ran to its end without reaching the target,
\* the best fitness was seen twice, and the first of the two was returned
C31_TieReturnsEarliest ==
    /\ engine = "optimize"
    /\ pc = "done"
    /\ last_event = "complete"
    /\ idx = MaxIterations
    /\ \E j, k \in Evaluated :
           /\ j < k
           /\ optimization_history[j].fitness = best_fitness
           /\ optimization_history[k].fitness = best_fitness
           /\ best_result.iteration = j

\* C32: a position opened by CorrectedPortfolioBacktester has premium_paid = nominal
\* exposure x premium_cost_pct / 100; the premium is min(remaining total budget, per-trade
\* limit) scaled by min(|strength| / 10, 1), or by 0.5 for strength 0; it is at most
\* premium_per_trade_pct percent and at least 0.1% of the capital at entry, and it is
\* deducted from capital
C32_PremiumOfNewPosition ==
    [][(engine = "corrected" /\ Len(positions') = Len(positions) + 1) =>
          LET p == positions'[Len(positions')]
              instrument == OPTION_INSTRUMENTS[p.instrument_name]
              per_trade_limit == PctOf(capital_eth, config.premium_per_trade_pct)
              remaining_budget ==
                  PctOf(capital_eth, config.max_total_premium_pct) - SumPremiums(positions)
              budget == Min(remaining_budget, per_trade_limit)
              scaled == IF p.signal_strength = 0 THEN RDiv(budget, 2)
                        ELSE RDiv(budget * Min(Abs(p.signal_strength), 10), 10)
          IN  /\ p.premium_paid_eth = BpOf(p.nominal_eth, instrument.premium_cost_pct)
              /\ p.premium_paid_eth = scaled
              /\ p.premium_paid_eth <= per_trade_limit
              /\ p.premium_paid_eth * 1000 >= capital_eth
              /\ capital_eth' = capital_eth - p.premium_paid_eth]_vars

\* C32 witness: two positions are open, the first from a signal of strength 0 at half the
\* per-trade limit, the second from a signal of strength 15 at the whole budget left
C32_HalfAndWholeBudget ==
    /\ engine = "corrected"
    /\ Len(positions) = 2
    /\ positions[1].signal_strength = 0
    /\ positions[1].premium_paid_eth * 2 =
           PctOf(config.initial_capital_eth, config.premium_per_trade_pct)
    /\ positions[2].signal_strength = 15
    /\ positions[2].premium_paid_eth >
           PctOf(config.initial_capital_eth, config.premium_per_trade_pct - 1)

\* a backtest runs
Backtesting == engine \in {"corrected", "manager"}

\* C33: in every state of a backtest 0 <= capital <= peak_capital, so that the drawdown
\* (peak - capital) / peak is within [0, 100] percent, and it is computed without a
\* division by zero
C33_DrawdownWellDefined ==
    Backtesting =>
        /\ 0 <= capital_eth
        /\ capital_eth <= peak_capital
        /\ (peak_capital - capital_eth) * 100 <= 100 * peak_capital
        /\ last_event # "ZeroDivisionError"

\* C33, for a backtest that starts with capital: capital stays within [0, peak], the peak
\* stays above 0 and no division by zero occurs
C33_DrawdownWellDefinedWithCapital ==
    (Backtesting /\ config.initial_capital_eth > 0) =>
        /\ 0 <= capital_eth
        /\ capital_eth <= peak_capital
        /\ peak_capital > 0
        /\ (peak_capital - capital_eth) * 100 <= 100 * peak_capital
        /\ last_event # "ZeroDivisionError"

\* C33, the peak: peak_capital never decreases
C33_PeakNeverDecreases ==
    [][Backtesting => peak_capital' >= peak_capital]_vars

\* C34: when run_backtest of a fresh CorrectedPortfolioBacktester has returned and a position
\* was opened, the statistics agree with the state: total_net_pnl_eth =
\* total_payout_received_eth - total_premium_paid_eth = final_capital_eth - initial capital,
\* and total_trades = winning_trades + losing_trades = the number of positions opened
C34_StatisticsAgreeWithState ==
    (engine = "corrected" /\ pc = "done" /\ Len(completed_trades) >= 1) =>
        LET statistics == calculate_results
        IN  /\ statistics.total_net_pnl_eth =
                   statistics.total_payout_received_eth - statistics.total_premium_paid_eth
            /\ statistics.total_net_pnl_eth =
                   statistics.final_capital_eth - config.initial_capital_eth
            /\ statistics.total_trades = statistics.winning_trades + statistics.losing_trades
            /\ statistics.total_trades = Len(completed_trades)

\* C34 witness: a run has returned with a winning and a losing trade and a net P&L
\* different from 0
C34_ReturnedWithWinAndLoss ==
    /\ engine = "corrected"
    /\ pc = "done"
    /\ calculate_results.winning_trades >= 1
    /\ calculate_results.losing_trades >= 1
    /\ calculate_results.total_net_pnl_eth # 0

\* the circuit breaker refuses entries: _check_drawdown returns True, check_trading_enabled
\* returns False
BreakerOn ==
    \/ engine = "corrected" /\ drawdown_above(config.max_drawdown_pct)
    \/ engine = "manager" /\ ~check_trading_enabled

\* no position is open
Flat == positions = << >> /\ active_positions = << >>

\* C35: expirations are processed whether or not the breaker is on: a position that has
\* reached its expiry is closed at that bar and its payout credited before anything else
\* happens at the bar; a bar at which _check_drawdown returns True takes no signal; and
\* once the breaker is on with no position open, capital never changes again, no position
\* is opened and the breaker stays on
C35_ExpiriesProcessedInDrawdown ==
    [][/\ (engine = "corrected" /\ pc = "expirations"
              /\ FirstExpired(positions, current_time) # 0) =>
             LET position == positions[FirstExpired(positions, current_time)]
             IN  /\ Len(positions') = Len(positions) - 1
                 /\ capital_eth' =
                        capital_eth + calculate_pnl(position, current_price).payout_eth
       /\ (engine = "manager" /\ pc = "expirations"
              /\ FirstHeld(active_positions, current_time) # 0) =>
             LET position == active_positions[FirstHeld(active_positions, current_time)]
             IN  /\ Len(active_positions') = Len(active_positions) - 1
                 /\ capital_eth' = capital_eth + close_pnl_eth(position, current_price)
       /\ (engine = "corrected" /\ pc = "expirations" /\ pc' # "expirations"
              /\ drawdown_above(config.max_drawdown_pct)) =>
             (pc' = "next_bar" /\ positions' = positions /\ capital_eth' = capital_eth)
       /\ (Backtesting /\ BreakerOn /\ Flat /\ pc # "signals") =>
             /\ BreakerOn'
             /\ Flat'
             /\ capital_eth' = capital_eth
             /\ Len(completed_trades') = Len(completed_trades)
             /\ Len(trade_logs') = Len(trade_logs)]_vars

\* C35 witness: CorrectedPortfolioBacktester entered drawdown mode at an earlier bar, and at
\* this bar, with the drawdown still above the limit, an expired position was closed and
\* its payout credited
C35_ExpiryCreditedInDrawdown ==
    /\ engine = "corrected"
    /\ pc = "expirations"
    /\ in_drawdown
    /\ last_event = "closed_expiry"
    /\ \E k \in 1..Len(completed_trades) :
           /\ completed_trades[k].exit_time = current_time
           /\ completed_trades[k].payout_eth > 0
           /\ (peak_capital - (capital_eth - completed_trades[k].payout_eth)) * 100 >
                  config.max_drawdown_pct * peak_capital

\* generate_signals has returned its list
Generated == engine = "config" /\ pc = "done"

\* the k-th signal was emitted for a rule whose action names an instrument of the catalog
HintedSignal(k) ==
    /\ signals[k].rule_triggered # "DEFAULT"
    /\ \E r \in 1..Len(dsl.signal_rules) :
           /\ dsl.signal_rules[r].rule_name = signals[k].rule_triggered
           /\ dsl.signal_rules[r].action_on_true.has_instrument_type
           /\ dsl.signal_rules[r].action_on_true.instrument_type \in DOMAIN INSTRUMENTS

\* the k-th signal carries the name and the parameters of the catalog instrument n
CarriesInstrument(k, n) ==
    /\ signals[k].instrument_type = n
    /\ signals[k].duration_days = INSTRUMENTS[n].duration_days
    /\ signals[k].profit_cap_pct = INSTRUMENTS[n].profit_cap_pct
    /\ signals[k].premium_cost_pct = INSTRUMENTS[n].premium_cost_pct

\* C36: a signal emitted for a rule whose action names a catalog instrument carries that
\* instrument (name, duration, cap, premium), and every emitted signal, that of the
\* default action included, carries one of the four catalog instruments
C36_EverySignalCatalogInstrument ==
    Generated =>
        \A k \in 1..Len(signals) :
            /\ HintedSignal(k) =>
                   \E r \in 1..Len(dsl.signal_rules) :
                       /\ dsl.signal_rules[r].rule_name = signals[k].rule_triggered
                       /\ CarriesInstrument(k, dsl.signal_rules[r].action_on_true.instrument_type)
            /\ \E n \in DOMAIN INSTRUMENTS : CarriesInstrument(k, n)

\* C36, the part on rules: a signal emitted for a rule carries a catalog instrument, the
\* one its action names when that is in the catalog
C36_RuleSignalCatalogInstrument ==
    Generated =>
        \A k \in 1..Len(signals) :
            signals[k].rule_triggered # "DEFAULT" =>
                /\ HintedSignal(k) =>
                       \E r \in 1..Len(dsl.signal_rules) :
                           /\ dsl.signal_rules[r].rule_name = signals[k].rule_triggered
                           /\ CarriesInstrument(k, dsl.signal_rules[r].action_on_true.instrument_type)
                /\ \E n \in DOMAIN INSTRUMENTS : CarriesInstrument(k, n)

\* C36: the signals of a default action carry the parameters of a catalog instrument
\* under the name the default action gives, in the catalog or not
C36_DefaultSignalKeepsItsName ==
    Generated =>
        \A k \in 1..Len(signals) :
            signals[k].rule_triggered = "DEFAULT" =>
                /\ signals[k].instrument_type = default_instrument_type(dsl)
                /\ signals[k].duration_days =
                       INSTRUMENTS[get_instrument(default_instrument_type(dsl))].duration_days

\* every task has returned from add_log or _flush_batch
LogsQuiescent == engine = "logs" /\ \A t \in Flushers : log_pc[t] = "returned"

\* C37: once every task has returned, each entry handed to add_log is in the table once,
\* or not in the table and still once in batch_logs for a later flush
C37_WrittenExactlyOnce ==
    LogsQuiescent =>
        \A k \in 1..Len(memory_logs) :
            Occurrences(memory_logs[k], database) + Occurrences(memory_logs[k], batch_logs) = 1

\* C37: no entry is in the table twice
C37_NoEntryTwice ==
    LogsQuiescent => \A k \in 1..Len(memory_logs) : Occurrences(memory_logs[k], database) <= 1

\* C37: no entry is dropped
C37_NoEntryDropped ==
    LogsQuiescent =>
        \A k \in 1..Len(memory_logs) :
            Occurrences(memory_logs[k], database) + Occurrences(memory_logs[k], batch_logs) >= 1

\* C37: a flush that fails leaves batch_logs and the table as they were
C37_FailedFlushKeepsEntries ==
    [][last_event' = "flush_failed" => (batch_logs' = batch_logs /\ database' = database)]_vars

\* the broadcasts are over and the handler of every closed socket has run
BroadcastsOver ==
    /\ engine = "broadcast"
    /\ \A b \in Broadcasts : broadcasts[b].pc \in {"returned", "raised"}
    /\ \A c \in Clients : c \in open_sockets \/ c \in handled \/ ~Holds(active_connections, c)

\* C38: no call of _broadcast raises
C38_BroadcastNeverRaises ==
    engine = "broadcast" => \A b \in Broadcasts : broadcasts[b].pc # "raised"

\* C38: once the broadcasts are over, every client that is still connected has received
\* the message of every broadcast
C38_EveryConnectedClientReached ==
    BroadcastsOver => \A b \in Broadcasts, c \in open_sockets : << b, c >> \in delivered

\* C38: once the broadcasts are over, active_connections holds the clients that are still
\* connected, each once, and no other
C38_ConnectionsAreTheConnected ==
    BroadcastsOver =>
        /\ \A c \in open_sockets : Occurrences(c, active_connections) = 1
        /\ \A k \in 1..Len(active_connections) :
               active_connections[k] \in open_sockets \/ active_connections[k] \notin handled

\* C38: clients may disconnect while broadcasts run: no broadcast raises, every client
\* still connected receives every message, and afterwards active_connections holds
\* exactly the clients still connected
C38_BroadcastToleratesDisconnects ==
    /\ C38_BroadcastNeverRaises
    /\ C38_EveryConnectedClientReached
    /\ BroadcastsOver =>
           /\ \A c \in open_sockets : Occurrences(c, active_connections) = 1
           /\ \A k \in 1..Len(active_connections) : active_connections[k] \in open_sockets

====
